---- MODULE Spec2Model ----
(***************************************************************************)
(* Clockwork Elite: date extraction, POC consolidation and email thread   *)
(* detection, modelled from the TypeScript sources.                        *)
(*                                                                         *)
(* A JavaScript Date is a record [day, tod]: day is the number of local    *)
(* calendar days since January 1, 2024 and tod the minutes since local     *)
(* midnight.  Strings whose content matters are tuples of tokens.          *)
(***************************************************************************)
EXTENDS Integers, Sequences, FiniteSets, TLC

VARIABLES
    now,          \* the clock sampled by new Date() / Date.now()
    universalInput, \* the pasted input
    dates,        \* ExtractedDate[] handed to POCConsolidator.consolidate
    content,      \* raw text handed to consolidate
    hasLastDate,  \* the override-present flag handed to consolidate
    pocs,         \* PointOfContact[] returned by consolidate (detectedPOCs)
    expr,         \* the date expression handed to parseDate
    parsed,       \* the Date (or NullDate) parseDate returned
    subject,      \* the raw subject handed to normalizeSubject
    normalized,   \* normalizeSubject(subject)
    renormalized, \* normalizeSubject(normalized)
    emails,       \* EmailMessage[] handed to detectEmailThreads
    threads,      \* the Map of threads, in insertion order; then the list
                  \* detectEmailThreads returned, handed to mergeSimilarThreads
    handled,      \* how many of the sorted emails the loop has placed
    merged,       \* EmailThread[] returned by mergeSimilarThreads
    email,        \* the message handed to calculateThreadMatchScore
    thread,       \* the thread handed to calculateThreadMatchScore
    score,        \* the score it returned
    config,       \* the WorkDistributionConfig handed to distributeWorkDays
    businessDays, \* getBusinessDays(config.startDate, config.endDate)
    workDays,     \* WorkDay[] returned by distributeWorkDays
    selectedPOCDates, \* the store's selectedPOCDates
    generatedOutput,  \* the store's generatedOutput
    workflow,     \* the store's workflow: [state, progress, message]
    currentMode,  \* the store's currentMode
    timers,       \* the setTimeout callbacks of saveAsDraft not yet run
    lastSavedDraft, \* the store's lastSavedDraft
    draftTimestamp, \* the store's draftTimestamp
    pc            \* position of the running call

vars == <<now, universalInput, dates, content, hasLastDate, pocs, expr, parsed,
          subject, normalized, renormalized, emails, threads, handled, merged,
          email, thread, score, config, businessDays, workDays,
          selectedPOCDates, generatedOutput, workflow, currentMode, timers,
          lastSavedDraft, draftTimestamp, pc>>

extractVars == <<universalInput, dates, content, hasLastDate, pocs>>
parseVars == <<expr, parsed>>
normalizeVars == <<subject, normalized, renormalized>>
threadVars == <<emails, threads, handled, merged>>
scoreVars == <<email, thread, score>>
taskVars == <<config, businessDays, workDays>>
storeVars == <<selectedPOCDates, generatedOutput, workflow, currentMode, timers,
               lastSavedDraft, draftTimestamp>>

(***************************************************************************)
(* Bounds                                                                  *)
(***************************************************************************)
MaxDates == 3
MaxLines == 3
MaxSubjectLen == 5
MaxEmails == 3

(***************************************************************************)
(* Calendar (JavaScript Date in local time, date-fns helpers)              *)
(***************************************************************************)
BaseYear == 2024
Years == 2024..2027
MinutesPerDay == 1440

IsLeap(y) == (y % 4 = 0 /\ y % 100 # 0) \/ y % 400 = 0

DaysInMonth(y, m) ==
    IF m = 2 THEN (IF IsLeap(y) THEN 29 ELSE 28)
    ELSE IF m \in {4, 6, 9, 11} THEN 30 ELSE 31

DaysInYear(y) == IF IsLeap(y) THEN 366 ELSE 365

RECURSIVE DaysBeforeYear(_)
DaysBeforeYear(y) ==
    IF y <= BaseYear THEN 0 ELSE DaysBeforeYear(y - 1) + DaysInYear(y - 1)

RECURSIVE DaysBeforeMonth(_, _)
DaysBeforeMonth(y, m) ==
    IF m <= 1 THEN 0 ELSE DaysBeforeMonth(y, m - 1) + DaysInMonth(y, m - 1)

\* the constructor without the carry of monthIndex 12 into the next year
NewDate_MonthWraps(year, monthIndex, day) ==
    LET m == (monthIndex % 12) + 1
    IN  [day |-> DaysBeforeYear(year) + DaysBeforeMonth(year, m) + day - 1, tod |-> 0]

\* new Date(year, monthIndex, day): monthIndex is 0-based and may be 12 or
\* more, day may be 0 or exceed the month's length; both overflow forward.
NewDate(year, monthIndex, day) ==
    LET y == year + (monthIndex \div 12)
        m == (monthIndex % 12) + 1
    IN  [day |-> DaysBeforeYear(y) + DaysBeforeMonth(y, m) + day - 1, tod |-> 0]

getFullYear(date) ==
    CHOOSE y \in Years :
        DaysBeforeYear(y) <= date.day /\ date.day < DaysBeforeYear(y + 1)

\* 0-based month index, as Date.prototype.getMonth
getMonth(date) ==
    LET y == getFullYear(date)
        n == date.day - DaysBeforeYear(y)
    IN  (CHOOSE m \in 1..12 :
            DaysBeforeMonth(y, m) <= n /\ n < DaysBeforeMonth(y, m) + DaysInMonth(y, m)) - 1

getDate(date) ==
    LET y == getFullYear(date)
    IN  date.day - DaysBeforeYear(y) - DaysBeforeMonth(y, getMonth(date) + 1) + 1

\* 0 = Sunday; January 1, 2024 was a Monday
getDay(date) == (date.day + 1) % 7

getTime(date) == date.day * MinutesPerDay + date.tod

addDays(date, amount) == [date EXCEPT !.day = @ + amount]

\* startOfDay that leaves the time of day in place
startOfDay_KeepsTime(date) == date

startOfDay(date) == [date EXCEPT !.tod = 0]

MonthNames == <<"January", "February", "March", "April", "May", "June", "July",
                "August", "September", "October", "November", "December">>

\* format(date, 'MMMM d, yyyy')
formatDate(date) ==
    <<MonthNames[getMonth(date) + 1], " ", ToString(getDate(date)), ", ",
      ToString(getFullYear(date))>>

(***************************************************************************)
(* DateExtractor.parseDate                                                 *)
(*                                                                         *)
(* A date expression is the record [kind, a, b] of what the regular        *)
(* expressions of parseDate read from the string:                          *)
(*   keyword  a = 0 today, -1 yesterday, 1 tomorrow                        *)
(*   weekday  a = index in dayNames of the bare name                       *)
(*   next, last   a = index in dayNames of the \w+day word, -1 if none     *)
(*   ordinal  a = the one or two digits                                    *)
(*   monthday a = index of the month word in monthNames/monthAbbr, -1 if   *)
(*            none, b = the digits                                         *)
(*   slash    a = first digits (month as written), b = second digits       *)
(*   endOfWeek, endOfMonth, beginningOfWeek, beginningOfMonth              *)
(*   full     a complete date the Date constructor accepts: a = its day,   *)
(*            b = its time of day                                          *)
(*   garbage  anything else: the Date constructor yields Invalid Date      *)
(***************************************************************************)
NullDate == [day |-> -1, tod |-> -1]

Expr(k, x, y) == [kind |-> k, a |-> x, b |-> y]

\* date-fns addMonths: same day number in the target month, clamped to the
\* month's last day; the time of day is kept
addMonths(date, amount) ==
    LET dayOfMonth == getDate(date)
        endOfDesiredMonth ==
            [NewDate(getFullYear(date), getMonth(date) + amount + 1, 0)
                EXCEPT !.tod = date.tod]
        daysInMonth == getDate(endOfDesiredMonth)
    IN  IF dayOfMonth >= daysInMonth THEN endOfDesiredMonth
        ELSE [NewDate(getFullYear(endOfDesiredMonth), getMonth(endOfDesiredMonth),
                      dayOfMonth) EXCEPT !.tod = date.tod]

\* the offset with `<` for `<=`: the same weekday resolves to today
BareWeekdayOffset_AllowsToday(dayIndex, todayDay) ==
    LET daysToAdd == dayIndex - todayDay
    IN  IF daysToAdd < 0 THEN daysToAdd + 7 ELSE daysToAdd

\* let daysToAdd = dayIndex - todayDay; if (daysToAdd <= 0) daysToAdd += 7
BareWeekdayOffset(dayIndex, todayDay) ==
    LET daysToAdd == dayIndex - todayDay
    IN  IF daysToAdd <= 0 THEN daysToAdd + 7 ELSE daysToAdd

\* the offset without `|| 7`: the same weekday is zero days away
ModOrSeven_Zero(x) == (x + 7) % 7

\* (x + 7) % 7 || 7
ModOrSeven(x) == IF (x + 7) % 7 = 0 THEN 7 ELSE (x + 7) % 7

\* new Date(dateStr) followed by isValid
FallbackParse(e) ==
    IF e.kind = "full" THEN startOfDay([day |-> e.a, tod |-> e.b]) ELSE NullDate

\* if (result < today) result = <rolled>
RollIfPast(result, rolled, today) ==
    IF getTime(result) < getTime(today) THEN rolled ELSE result

parseDate(e, today) ==
    LET currentYear == getFullYear(today)
        currentMonth == getMonth(today)
        todayDay == getDay(today)
    IN  IF e.kind = "keyword" THEN addDays(today, e.a)
        ELSE IF e.kind = "weekday"
            THEN addDays(today, BareWeekdayOffset(e.a, todayDay))
        ELSE IF e.kind = "next" /\ e.a >= 0
            THEN addDays(today, ModOrSeven(e.a - todayDay))
        ELSE IF e.kind = "last" /\ e.a >= 0
            THEN addDays(today, 0 - ModOrSeven(todayDay - e.a))
        ELSE IF e.kind = "ordinal" /\ e.a >= 1 /\ e.a <= 31
            THEN LET result == NewDate(currentYear, currentMonth, e.a)
                 IN  startOfDay(RollIfPast(result, addMonths(result, 1), today))
        ELSE IF e.kind = "monthday" /\ e.a >= 0 /\ e.b >= 1 /\ e.b <= 31
            THEN startOfDay(RollIfPast(NewDate(currentYear, e.a, e.b),
                                       NewDate(currentYear + 1, e.a, e.b), today))
        ELSE IF e.kind = "slash" /\ e.a - 1 >= 0 /\ e.a - 1 <= 11
                                 /\ e.b >= 1 /\ e.b <= 31
            THEN startOfDay(RollIfPast(NewDate(currentYear, e.a - 1, e.b),
                                       NewDate(currentYear + 1, e.a - 1, e.b), today))
        ELSE IF e.kind = "endOfWeek"
            THEN addDays(today, ModOrSeven(5 - todayDay))
        ELSE IF e.kind = "endOfMonth"
            THEN NewDate(currentYear, currentMonth + 1, 0)
        ELSE IF e.kind = "beginningOfWeek"
            THEN addDays(today, IF (8 - todayDay) % 7 = 0 THEN 7 ELSE (8 - todayDay) % 7)
        ELSE IF e.kind = "beginningOfMonth"
            THEN NewDate(currentYear, currentMonth + 1, 1)
        ELSE FallbackParse(e)

(***************************************************************************)
(* Text                                                                    *)
(*                                                                         *)
(* A text is a sequence of lines [kind, form, intro, expr]:                *)
(*   header  a "Sent:" / "Date:" line; form is the way the date is written *)
(*           ("wdMDY"  Monday, January 6, 2025                             *)
(*            "wdMDYtime"  Monday, January 6, 2025 10:30                   *)
(*            "MDY"  January 6, 2025      "wdSlash"  Mon, 1/6/2025);       *)
(*           intro: the label is preceded on its line by "On" or "From";   *)
(*           expr: what the Date constructor makes of the written date     *)
(*   marker  "[Last date in response: <expr>]"; form "exact" as written    *)
(*           here, "lower" in lower case, "open" without the closing       *)
(*           bracket, "empty" with only blanks for the date                *)
(*   body    prose that mentions a date                                    *)
(*   script  a <script>...</script> element                                *)
(***************************************************************************)
Line(k, f, i, e) == [kind |-> k, form |-> f, intro |-> i, expr |-> e]

DayNames == <<"Sunday", "Monday", "Tuesday", "Wednesday", "Thursday", "Friday",
              "Saturday">>

\* the written form of a date expression
ExprText(e) ==
    IF e.kind = "full"
        THEN formatDate([day |-> e.a, tod |-> e.b])
             \o (IF e.b > 0 THEN <<" ", ToString(e.b \div 60), ":", ToString(e.b % 60)>>
                 ELSE <<>>)
    ELSE IF e.kind = "keyword"
        THEN <<IF e.a = 0 THEN "today" ELSE IF e.a < 0 THEN "yesterday" ELSE "tomorrow">>
    ELSE IF e.kind = "weekday" THEN <<DayNames[e.a + 1]>>
    ELSE IF e.kind \in {"next", "last"}
        THEN <<e.kind, " ", IF e.a >= 0 THEN DayNames[e.a + 1] ELSE "birthday">>
    ELSE IF e.kind = "ordinal" THEN <<"the ", ToString(e.a), "th">>
    ELSE IF e.kind = "monthday"
        THEN <<IF e.a >= 0 THEN MonthNames[e.a + 1] ELSE "Smarch", " ", ToString(e.b)>>
    ELSE IF e.kind = "slash" THEN <<ToString(e.a), "/", ToString(e.b)>>
    ELSE <<e.kind>>

\* the date as the header line writes it
HeaderText(line, withTime) ==
    IF line.expr.kind # "full" THEN <<"Monday, January 45, 2025">>
    ELSE LET d == [day |-> line.expr.a, tod |-> 0]
             wd == DayNames[getDay(d) + 1]
             hm == IF withTime
                   THEN <<" ", ToString(line.expr.b \div 60), ":", ToString(line.expr.b % 60)>>
                   ELSE <<>>
         IN  IF line.form = "MDY" THEN formatDate(d)
             ELSE IF line.form = "wdSlash"
                 THEN <<wd, ", ", ToString(getMonth(d) + 1), "/", ToString(getDate(d)),
                        "/", ToString(getFullYear(d))>>
             ELSE <<wd, ", ">> \o formatDate(d) \o hm

(***************************************************************************)
(* InputSanitizer.sanitizeEmailContent                                     *)
(***************************************************************************)
\* DANGEROUS_PATTERNS removes script elements; the other lines hold no markup
sanitizeEmailContent(input) == SelectSeq(input, LAMBDA l : l.kind # "script")

(***************************************************************************)
(* DateExtractor.extractDates / hasLastDateMarker                          *)
(***************************************************************************)
HeaderPatterns == 1..5

\* does HEADER_PATTERNS[p] match the line
PatternMatches(p, line) ==
    /\ line.kind = "header"
    /\ CASE p = 1 -> line.form \in {"wdMDY", "wdMDYtime"}
         [] p = 2 -> line.form = "MDY"
         [] p = 3 -> line.form = "wdSlash"
         [] p = 4 -> line.form = "wdMDYtime"
         [] p = 5 -> line.intro /\ line.form \in {"wdMDY", "wdMDYtime"}

\* match[1] of HEADER_PATTERNS[p] on the line: the expression and its text
\* (only the fourth pattern captures the time of day)
Capture(p, line) ==
    [expr |-> IF line.expr.kind = "full" /\ p # 4
              THEN [line.expr EXCEPT !.b = 0] ELSE line.expr,
     str |-> HeaderText(line, p = 4)]

\* content.matchAll(pattern) for each pattern in turn: pattern-major order
RECURSIVE HeaderCaptures(_, _)
HeaderCaptures(text, p) ==
    IF p > 5 THEN <<>>
    ELSE LET hits == SelectSeq(text, LAMBDA l : PatternMatches(p, l))
         IN  [i \in 1..Len(hits) |-> Capture(p, hits[i])] \o HeaderCaptures(text, p + 1)

\* the closing bracket that ends [^\]]+ : closed markers are the only lines
\* with a "]"
IsClosed(line) == line.kind = "marker" /\ line.form # "open"

\* does the /i pattern find "[Last date in response:" in the line
IsMarker(line) == line.kind = "marker"

\* content.match(/\[Last date in response:\s*([^\]]+)\]/i): the first marker
\* that is followed by a closing bracket, its capture running up to the first
\* such bracket (across lines when the marker itself has none)
LastDateMatch(text) ==
    LET starts == {i \in 1..Len(text) :
                      /\ IsMarker(text[i])
                      /\ \E j \in i..Len(text) : IsClosed(text[j])}
    IN  IF starts = {} THEN [found |-> FALSE, expr |-> Expr("garbage", 0, 0), str |-> <<>>]
        ELSE LET i == CHOOSE k \in starts : \A m \in starts : k <= m
             IN  IF text[i].form = "open"
                     THEN [found |-> TRUE, expr |-> Expr("garbage", 0, 0),
                           str |-> ExprText(text[i].expr) \o <<"...">>]
                 ELSE IF text[i].form = "empty"
                     THEN [found |-> TRUE, expr |-> Expr("garbage", 0, 0), str |-> <<>>]
                 ELSE [found |-> TRUE, expr |-> text[i].expr,
                       str |-> ExprText(text[i].expr)]

ExtractedDate(d, c, l) ==
    [date |-> d, formatted |-> formatDate(d), context |-> c, isLastDate |-> l]

\* the override branch that keeps a marker it could not parse, dated today
LastDateEntries_KeepsUnparsed(text, today) ==
    LET m == LastDateMatch(text)
        parsedDate == parseDate(m.expr, today)
    IN  IF ~m.found THEN <<>>
        ELSE IF parsedDate # NullDate
            THEN <<ExtractedDate(parsedDate, <<"Last response: ">> \o m.str, TRUE)>>
        ELSE <<ExtractedDate(today, <<"Last response: ">> \o m.str, TRUE)>>

\* the lastDateMatch branch: one entry when the captured text parses
LastDateEntries(text, today) ==
    LET m == LastDateMatch(text)
        parsedDate == parseDate(m.expr, today)
    IN  IF m.found /\ parsedDate # NullDate
        THEN <<ExtractedDate(parsedDate, <<"Last response: ">> \o m.str, TRUE)>>
        ELSE <<>>

\* the header loop without the uniqueDates test
AddHeaderDate_NoDedup(acc, cap, today) ==
    LET parsedDate == parseDate(cap.expr, today)
    IN  IF parsedDate # NullDate
        THEN Append(acc, ExtractedDate(parsedDate, <<"Email header: ">> \o cap.str, FALSE))
        ELSE acc

\* the header loop in which a repeated date takes over the entry's context
AddHeaderDate_LastWins(acc, cap, today) ==
    LET parsedDate == parseDate(cap.expr, today)
        entry == ExtractedDate(parsedDate, <<"Email header: ">> \o cap.str, FALSE)
    IN  IF parsedDate = NullDate THEN acc
        ELSE IF \A i \in 1..Len(acc) : acc[i].formatted # formatDate(parsedDate)
            THEN Append(acc, entry)
        ELSE [i \in 1..Len(acc) |->
                 IF acc[i].formatted = formatDate(parsedDate) THEN entry ELSE acc[i]]

\* one candidate of the header loop: skipped when unparseable or when its
\* formatted date is already in uniqueDates
AddHeaderDate(acc, cap, today) ==
    LET parsedDate == parseDate(cap.expr, today)
    IN  IF parsedDate # NullDate
           /\ \A i \in 1..Len(acc) : acc[i].formatted # formatDate(parsedDate)
        THEN Append(acc, ExtractedDate(parsedDate, <<"Email header: ">> \o cap.str, FALSE))
        ELSE acc

\* the header loop that gives up at the first unparseable candidate
RECURSIVE HeaderEntries_StopsAtUnparseable(_, _)
HeaderEntries_StopsAtUnparseable(caps, today) ==
    LET bad == {i \in 1..Len(caps) : parseDate(caps[i].expr, today) = NullDate}
    IN  IF caps = <<>> THEN <<>>
        ELSE IF bad # {}
            THEN HeaderEntries_StopsAtUnparseable(
                     SubSeq(caps, 1, (CHOOSE i \in bad : \A j \in bad : i <= j) - 1), today)
        ELSE AddHeaderDate(
                 HeaderEntries_StopsAtUnparseable(SubSeq(caps, 1, Len(caps) - 1), today),
                 caps[Len(caps)], today)

RECURSIVE HeaderEntries(_, _)
HeaderEntries(caps, today) ==
    IF caps = <<>> THEN <<>>
    ELSE AddHeaderDate(HeaderEntries(SubSeq(caps, 1, Len(caps) - 1), today),
                       caps[Len(caps)], today)

extractDates(text, today) ==
    LastDateEntries(text, today) \o HeaderEntries(HeaderCaptures(text, 1), today)

\* the query that ignores the letter case of the label
hasLastDateMarker_IgnoresCase(text) ==
    \E i \in 1..Len(text) : text[i].kind = "marker"

\* content.includes('[Last date in response:'): case-sensitive, no bracket needed
hasLastDateMarker(text) ==
    \E i \in 1..Len(text) : text[i].kind = "marker" /\ text[i].form # "lower"

(***************************************************************************)
(* POCConsolidator                                                         *)
(***************************************************************************)
PendingDateStr == <<"Waiting for last date...">>
PendingContext == <<"Please wait for the last date prompt">>

RECURSIVE join(_, _)
join(parts, sep) ==
    IF parts = <<>> THEN <<>>
    ELSE IF Len(parts) = 1 THEN Head(parts)
    ELSE Head(parts) \o sep \o join(Tail(parts), sep)

\* Array.prototype.sort with a numeric comparator, on <<key, element>> pairs:
\* stable, so equal keys keep their input order
RECURSIVE InsertByKey(_, _)
InsertByKey(sorted, x) ==
    IF sorted = <<>> THEN <<x>>
    ELSE IF x[1] < Head(sorted)[1] THEN <<x>> \o sorted
    ELSE <<Head(sorted)>> \o InsertByKey(Tail(sorted), x)

RECURSIVE SortPairs(_)
SortPairs(s) ==
    IF s = <<>> THEN <<>>
    ELSE InsertByKey(SortPairs(SubSeq(s, 1, Len(s) - 1)), s[Len(s)])

Elements(pairs) == [i \in 1..Len(pairs) |-> pairs[i][2]]

PocTime(poc) == getTime(poc.date)

\* the sort with the comparator's operands swapped: latest first
SortedPOCs_Descending(ps) ==
    Elements(SortPairs([i \in 1..Len(ps) |-> <<0 - PocTime(ps[i]), ps[i]>>]))

\* consolidated.sort((a, b) => a.date.getTime() - b.date.getTime())
SortedPOCs(ps) == Elements(SortPairs([i \in 1..Len(ps) |-> <<PocTime(ps[i]), ps[i]>>]))

\* the drafts with the override's draft typed as a meeting
DraftPOC_OverrideIsMeeting(date, index, text) ==
    [id |-> <<"poc", index>>, date |-> date.date, dateStr |-> date.formatted,
     type |-> IF date.isLastDate THEN "meeting" ELSE "email",
     context |-> date.context, content |-> text,
     selected |-> TRUE, isLastDate |-> date.isLastDate,
     exchanges |-> 0, combinedContext |-> <<>>]

\* dates.map((date, index) => ({...}))
DraftPOC(date, index, text) ==
    [id |-> <<"poc", index>>, date |-> date.date, dateStr |-> date.formatted,
     type |-> "email", context |-> date.context, content |-> text,
     selected |-> TRUE, isLastDate |-> date.isLastDate,
     exchanges |-> 0, combinedContext |-> <<>>]

KeyIndex(map, dateKey) ==
    IF \E i \in 1..Len(map) : map[i].dateStr = dateKey
    THEN CHOOSE i \in 1..Len(map) : map[i].dateStr = dateKey
    ELSE 0

\* the merge that forgets to count the added exchange
MergePOC_KeepsCount(map, poc) ==
    LET k == KeyIndex(map, poc.dateStr)
    IN  IF k = 0
        THEN Append(map, [poc EXCEPT !.exchanges = 1,
                                     !.combinedContext = <<poc.context>>])
        ELSE [map EXCEPT ![k] =
                [@ EXCEPT !.combinedContext = Append(@, poc.context)]]

\* one iteration of pocs.forEach over the insertion-ordered Map pocsByDate
MergePOC(map, poc) ==
    LET k == KeyIndex(map, poc.dateStr)
    IN  IF k = 0
        THEN Append(map, [poc EXCEPT !.exchanges = 1,
                                     !.combinedContext = <<poc.context>>])
        ELSE [map EXCEPT ![k] =
                [@ EXCEPT !.exchanges = @ + 1,
                          !.combinedContext = Append(@, poc.context),
                          !.type = IF poc.type # "email" /\ map[k].type = "email"
                                   THEN poc.type ELSE @]]

RECURSIVE PocsByDate(_)
PocsByDate(drafts) ==
    IF drafts = <<>> THEN <<>>
    ELSE MergePOC(PocsByDate(SubSeq(drafts, 1, Len(drafts) - 1)), drafts[Len(drafts)])

\* the rewrite applied to every record, single exchanges included
FormatContext_Always(poc) ==
    [poc EXCEPT !.context =
        <<ToString(poc.exchanges), " exchanges on this day: ">>
            \o join(poc.combinedContext, <<"; ">>)]

\* context: poc.exchanges > 1 ? `${exchanges} exchanges on this day: ...` : poc.context
FormatContext(poc) ==
    IF poc.exchanges > 1
    THEN [poc EXCEPT !.context =
            <<ToString(poc.exchanges), " exchanges on this day: ">>
                \o join(poc.combinedContext, <<"; ">>)]
    ELSE poc

PendingPOC(text, clock) ==
    [id |-> <<"poc", getTime(clock)>>, date |-> clock, dateStr |-> PendingDateStr,
     type |-> "pending", context |-> PendingContext, content |-> text,
     selected |-> FALSE, isLastDate |-> FALSE,
     exchanges |-> 0, combinedContext |-> <<>>]

\* consolidate that defers only when there is nothing to consolidate
consolidate_PendingOnlyWhenEmpty(ds, text, hasLast, clock) ==
    IF ~hasLast /\ ds = <<>> THEN <<PendingPOC(text, clock)>>
    ELSE LET drafts == [i \in 1..Len(ds) |-> DraftPOC(ds[i], i - 1, text)]
             map == PocsByDate(drafts)
             consolidated == [i \in 1..Len(map) |-> FormatContext(map[i])]
         IN  SortedPOCs(consolidated)

\* consolidate without the final sort
consolidate_Unsorted(ds, text, hasLast, clock) ==
    IF ~hasLast THEN <<PendingPOC(text, clock)>>
    ELSE LET drafts == [i \in 1..Len(ds) |-> DraftPOC(ds[i], i - 1, text)]
             map == PocsByDate(drafts)
         IN  [i \in 1..Len(map) |-> FormatContext(map[i])]

consolidate(ds, text, hasLast, clock) ==
    IF ~hasLast THEN <<PendingPOC(text, clock)>>
    ELSE LET drafts == [i \in 1..Len(ds) |-> DraftPOC(ds[i], i - 1, text)]
             map == PocsByDate(drafts)
             consolidated == [i \in 1..Len(map) |-> FormatContext(map[i])]
         IN  SortedPOCs(consolidated)

\* poc.exchanges || 1 : an unset count reads as 1
getTotalExchanges(ps) ==
    LET RECURSIVE Sum(_)
        Sum(s) == IF s = <<>> THEN 0
                  ELSE (IF Head(s).exchanges = 0 THEN 1 ELSE Head(s).exchanges)
                       + Sum(Tail(s))
    IN  Sum(ps)

(***************************************************************************)
(* normalizeSubject                                                        *)
(*                                                                         *)
(* A subject is a tuple of tokens: a reply/forward prefix, a blank, a tab  *)
(* or a word.                                                              *)
(***************************************************************************)
IsPrefixToken(t) == t \in {"RE:", "Re:", "re:", "FW:", "Fw:", "fw:", "Fwd:", "FWD:", "fwd:"}
IsSpace(t) == t \in {" ", "\t"}

RECURSIVE DropSpaces(_)
DropSpaces(s) == IF s # <<>> /\ IsSpace(Head(s)) THEN DropSpaces(Tail(s)) ELSE s

\* .replace(/^(RE:|FW:|Fwd:|Re:|Fw:)\s*/gi, ''): the pattern is anchored at
\* the start of the string, so it matches at most once
StripPrefix(s) ==
    IF s # <<>> /\ IsPrefixToken(Head(s)) THEN DropSpaces(Tail(s)) ELSE s

\* .replace(/\s+/g, ' ')
RECURSIVE CollapseSpaces(_)
CollapseSpaces(s) ==
    IF s = <<>> THEN <<>>
    ELSE IF IsSpace(Head(s)) THEN <<" ">> \o CollapseSpaces(DropSpaces(s))
    ELSE <<Head(s)>> \o CollapseSpaces(Tail(s))

RECURSIVE DropTrailingSpaces(_)
DropTrailingSpaces(s) ==
    IF s # <<>> /\ IsSpace(s[Len(s)])
    THEN DropTrailingSpaces(SubSeq(s, 1, Len(s) - 1)) ELSE s

trim(s) == DropTrailingSpaces(DropSpaces(s))

LowerToken(t) ==
    CASE t \in {"RE:", "Re:"} -> "re:"
      [] t \in {"FW:", "Fw:"} -> "fw:"
      [] t \in {"Fwd:", "FWD:"} -> "fwd:"
      [] t = "X" -> "x"
      [] t = "Y" -> "y"
      [] OTHER -> t

toLowerCase(s) == [i \in 1..Len(s) |-> LowerToken(s[i])]

normalizeSubject(s) == toLowerCase(trim(CollapseSpaces(StripPrefix(s))))

(***************************************************************************)
(* Email thread detection                                                  *)
(*                                                                         *)
(* Message dates are getTime() values in hours.  A score is the double the *)
(* code computes, held as [units, ulps]: units is the exact sum of the     *)
(* four signals in 1/ScoreScale, ulps the distance of the double from the  *)
(* double nearest to that exact sum, in units in the last place.  Doubles  *)
(* compare as these pairs compare, units first.                            *)
(***************************************************************************)
ScoreScale == 8400
SubjectWeight == 3360          \* weights.subject = 0.4
ParticipantsWeight == 2520     \* weights.participants = 0.3
ReferencesWeight == 1680       \* weights.references = 0.2
TimingWeight == 840            \* weights.timing = 0.1
HoursPerDay == 24
ActiveDays == 30

NoId == 0

Max(a, b) == IF a >= b THEN a ELSE b
Min(a, b) == IF a <= b THEN a ELSE b
Least(S) == CHOOSE i \in S : \A j \in S : i <= j
Abs(a) == IF a < 0 THEN 0 - a ELSE a

\* the term tuples <<subject, participants, references, timing>> whose
\* left-to-right double sum lands one unit in the last place above, or below,
\* the double nearest to the exact sum (IEEE 754 binary64, round to nearest
\* even); every other tuple of the signals that occur sums to the nearest
\* double
RoundedUp ==
    {<<0, 0, 1680, 840>>, <<0, 0, 1680, 480>>, <<0, 840, 840, 840>>,
     <<0, 840, 840, 480>>, <<0, 1680, 1680, 480>>, <<0, 2520, 840, 480>>,
     <<1680, 0, 0, 840>>, <<1680, 0, 0, 480>>, <<1680, 0, 840, 480>>,
     <<1680, 0, 840, 0>>, <<1680, 0, 1680, 480>>, <<1680, 840, 840, 480>>,
     <<1680, 1260, 1680, 480>>, <<1680, 1680, 0, 480>>, <<1680, 1680, 1680, 840>>,
     <<1680, 1680, 1680, 480>>, <<1680, 1680, 1680, 0>>, <<3360, 0, 0, 480>>,
     <<3360, 0, 1680, 840>>, <<3360, 0, 1680, 480>>, <<3360, 0, 1680, 0>>,
     <<3360, 1260, 0, 480>>, <<3360, 1680, 1680, 480>>}

RoundedDown ==
    {<<0, 840, 0, 0>>, <<0, 1260, 0, 480>>, <<0, 1260, 1680, 840>>,
     <<0, 1680, 0, 0>>, <<1680, 1260, 0, 840>>, <<1680, 1260, 840, 840>>,
     <<1680, 1260, 840, 0>>, <<1680, 2520, 1680, 840>>, <<3360, 840, 1680, 840>>,
     <<3360, 1680, 840, 840>>, <<3360, 2520, 0, 840>>, <<3360, 2520, 840, 840>>,
     <<3360, 2520, 840, 0>>, <<3360, 2520, 1680, 840>>, <<3360, 2520, 1680, 480>>,
     <<3360, 2520, 1680, 0>>}

Double(terms) ==
    [units |-> terms[1] + terms[2] + terms[3] + terms[4],
     ulps |-> IF terms \in RoundedUp THEN 1
              ELSE IF terms \in RoundedDown THEN -1 ELSE 0]

\* the double of a decimal literal n / ScoreScale
Literal(n) == [units |-> n, ulps |-> 0]

Greater(x, y) == x.units > y.units \/ (x.units = y.units /\ x.ulps > y.ulps)

Threshold == Literal(5880)     \* 0.7

\* String.prototype.includes on token tuples
includes(s, sub) ==
    \E i \in 0..(Len(s) - Len(sub)) : SubSeq(s, i + 1, i + Len(sub)) = sub

EmailParticipants(e) == {e.from} \cup e.to \cup e.cc

\* the overlap ratio as <<numerator, denominator>>
calculateSetOverlap(set1, set2) ==
    IF Cardinality(set1) = 0 \/ Cardinality(set2) = 0 THEN <<0, 1>>
    ELSE <<Cardinality(set1 \cap set2), Max(Cardinality(set1), Cardinality(set2))>>

SubjectTerm(e, t) ==
    LET normalizedEmailSubject == normalizeSubject(e.subject)
    IN  IF normalizedEmailSubject = t.subject THEN SubjectWeight
        ELSE IF includes(t.subject, normalizedEmailSubject)
                \/ includes(normalizedEmailSubject, t.subject)
            THEN SubjectWeight \div 2
        ELSE 0

ParticipantsTerm(e, t) ==
    LET overlap == calculateSetOverlap(EmailParticipants(e), t.participants)
    IN  (ParticipantsWeight * overlap[1]) \div overlap[2]

ReferencesTerm(e, t) ==
    LET threadMessageIds ==
            {t.messages[i].messageId : i \in 1..Len(t.messages)} \ {NoId}
    IN  IF e.inReplyTo # NoId /\ e.inReplyTo \in threadMessageIds
            THEN ReferencesWeight
        ELSE IF \E i \in 1..Len(e.references) : e.references[i] \in threadMessageIds
            THEN ReferencesWeight \div 2
        ELSE 0

\* the timing signal without the 7-day cap: the decay goes on below zero
TimingTerm_NoCap(e, t) ==
    IF t.messages = <<>> THEN 0
    ELSE LET hoursDiff == Abs(e.date - t.messages[Len(t.messages)].date)
         IN  IF hoursDiff < HoursPerDay THEN TimingWeight
             ELSE 0 - ((TimingWeight * (hoursDiff - 7 * HoursPerDay)) \div (7 * HoursPerDay))

\* daysDiff < 1: full weight; daysDiff < 7: weight * (1 - daysDiff / 7)
TimingTerm(e, t) ==
    IF t.messages = <<>> THEN 0
    ELSE LET hoursDiff == Abs(e.date - t.messages[Len(t.messages)].date)
         IN  IF hoursDiff < HoursPerDay THEN TimingWeight
             ELSE IF hoursDiff < 7 * HoursPerDay
                 THEN (TimingWeight * (7 * HoursPerDay - hoursDiff)) \div (7 * HoursPerDay)
             ELSE 0

calculateThreadMatchScore(e, t) ==
    Double(<<SubjectTerm(e, t), ParticipantsTerm(e, t), ReferencesTerm(e, t),
             TimingTerm(e, t)>>)

\* the search with `>=` for `>` against the best so far: the last of the
\* threads that tie for the highest score wins
RECURSIVE BestMatch_LastWins(_, _, _, _)
BestMatch_LastWins(e, ts, i, best) ==
    IF i > Len(ts) THEN best
    ELSE LET sc == calculateThreadMatchScore(e, ts[i])
         IN  IF Greater(sc, Threshold)
                /\ (best = 0 \/ ~Greater(calculateThreadMatchScore(e, ts[best]), sc))
             THEN BestMatch_LastWins(e, ts, i + 1, i)
             ELSE BestMatch_LastWins(e, ts, i + 1, best)

\* the search with `>=` for `>` against the threshold: a score of exactly
\* 0.7 is enough to join
RECURSIVE BestMatch_AtThreshold(_, _, _, _)
BestMatch_AtThreshold(e, ts, i, best) ==
    IF i > Len(ts) THEN best
    ELSE LET sc == calculateThreadMatchScore(e, ts[i])
         IN  IF ~Greater(Threshold, sc)
                /\ (best = 0 \/ Greater(sc, calculateThreadMatchScore(e, ts[best])))
             THEN BestMatch_AtThreshold(e, ts, i + 1, i)
             ELSE BestMatch_AtThreshold(e, ts, i + 1, best)

\* the index of the chosen thread in the Map's insertion order, 0 for null:
\* a later thread replaces the best match only with a strictly greater score
RECURSIVE BestMatch(_, _, _, _)
BestMatch(e, ts, i, best) ==
    IF i > Len(ts) THEN best
    ELSE LET sc == calculateThreadMatchScore(e, ts[i])
         IN  IF Greater(sc, Threshold)
                /\ (best = 0 \/ Greater(sc, calculateThreadMatchScore(e, ts[best])))
             THEN BestMatch(e, ts, i + 1, i)
             ELSE BestMatch(e, ts, i + 1, best)

findBestThreadMatch(e, ts) == BestMatch(e, ts, 1, 0)

\* thread ids are taken to be fresh: the n-th thread created gets id n
createNewThread(e, n) ==
    [id |-> n, subject |-> normalizeSubject(e.subject),
     participants |-> EmailParticipants(e), messages |-> <<e>>,
     startDate |-> e.date, endDate |-> e.date, isActive |-> TRUE,
     summary |-> <<>>]

\* the join that overwrites the thread's messages with the new one
addEmailToThread_Replaces(t, e) ==
    [t EXCEPT !.messages = <<e>>,
              !.participants = @ \cup EmailParticipants(e),
              !.startDate = IF e.date < @ THEN e.date ELSE @,
              !.endDate = IF e.date > @ THEN e.date ELSE @]

\* the join that leaves endDate alone
addEmailToThread_KeepsEndDate(t, e) ==
    [t EXCEPT !.messages = Append(@, e),
              !.participants = @ \cup EmailParticipants(e),
              !.startDate = IF e.date < @ THEN e.date ELSE @]

addEmailToThread(t, e) ==
    [t EXCEPT !.messages = Append(@, e),
              !.participants = @ \cup EmailParticipants(e),
              !.startDate = IF e.date < @ THEN e.date ELSE @,
              !.endDate = IF e.date > @ THEN e.date ELSE @]

\* Date.now() in whole hours
NowHours(clock) == clock.day * HoursPerDay + clock.tod \div 60

\* the activity test with `<=` for `<`
isThreadActive_AtMost(t, clock) == NowHours(clock) - t.endDate <= ActiveDays * HoursPerDay

\* return daysSinceLastMessage < 30
isThreadActive(t, clock) == NowHours(clock) - t.endDate < ActiveDays * HoursPerDay

\* Math.ceil of the span in days; the messages hold no topic keyword
generateThreadSummary(t) ==
    LET duration == (t.endDate - t.startDate + HoursPerDay - 1) \div HoursPerDay
    IN  <<"Thread with ", ToString(Len(t.messages)), " messages over ",
          ToString(duration), IF duration # 1 THEN " days." ELSE " day.">>

EmailTime(e) == e.date

\* [...emails].sort((a, b) => a.date.getTime() - b.date.getTime())
SortedEmails(es) == Elements(SortPairs([i \in 1..Len(es) |-> <<EmailTime(es[i]), es[i]>>]))

(***************************************************************************)
(* mergeSimilarThreads                                                     *)
(***************************************************************************)
shouldMergeThreads(thread1, thread2) ==
    LET participantOverlap == calculateSetOverlap(thread1.participants, thread2.participants)
        hoursDiff == Abs(thread1.startDate - thread2.startDate)
    IN  \/ thread1.subject = thread2.subject
        \/ 10 * participantOverlap[1] > 8 * participantOverlap[2]
        \/ /\ hoursDiff < 2 * HoursPerDay
           /\ 10 * participantOverlap[1] > 5 * participantOverlap[2]

\* the merge that appends the source's messages without sorting again
mergeThreads_Unsorted(target, source) ==
    [target EXCEPT
        !.messages = @ \o source.messages,
        !.participants = @ \cup source.participants,
        !.startDate = IF source.startDate < @ THEN source.startDate ELSE @,
        !.endDate = IF source.endDate > @ THEN source.endDate ELSE @,
        !.isActive = @ \/ source.isActive]

mergeThreads(target, source) ==
    [target EXCEPT
        !.messages = SortedEmails(@ \o source.messages),
        !.participants = @ \cup source.participants,
        !.startDate = IF source.startDate < @ THEN source.startDate ELSE @,
        !.endDate = IF source.endDate > @ THEN source.endDate ELSE @,
        !.isActive = @ \/ source.isActive]

\* the inner loop that tests every candidate against the target as it was
\* when the loop began
RECURSIVE AbsorbAgainst(_, _, _, _, _)
AbsorbAgainst(given, currentThread, ts, j, processed) ==
    IF j > Len(ts) THEN [current |-> currentThread, processed |-> processed]
    ELSE IF ts[j].id \notin processed /\ shouldMergeThreads(given, ts[j])
        THEN AbsorbAgainst(given, mergeThreads(currentThread, ts[j]), ts, j + 1,
                           processed \cup {ts[j].id})
    ELSE AbsorbAgainst(given, currentThread, ts, j + 1, processed)

Absorb_AgainstInput(currentThread, ts, j, processed) ==
    AbsorbAgainst(currentThread, currentThread, ts, j, processed)

\* the inner loop over j: the running copy and the ids absorbed into it
RECURSIVE Absorb(_, _, _, _)
Absorb(currentThread, ts, j, processed) ==
    IF j > Len(ts) THEN [current |-> currentThread, processed |-> processed]
    ELSE IF ts[j].id \notin processed /\ shouldMergeThreads(currentThread, ts[j])
        THEN Absorb(mergeThreads(currentThread, ts[j]), ts, j + 1,
                    processed \cup {ts[j].id})
    ELSE Absorb(currentThread, ts, j + 1, processed)

\* the outer loop over i.  { ...thread } copies the fields, not the messages
\* array nor the participants Set: what mergeThreads pushes into the copy's
\* array and adds to its Set shows in the input thread as well.
RECURSIVE MergeFrom(_, _, _, _)
MergeFrom(ts, i, out, processed) ==
    IF i > Len(ts) THEN [merged |-> out, input |-> ts]
    ELSE IF ts[i].id \in processed THEN MergeFrom(ts, i + 1, out, processed)
    ELSE LET r == Absorb(ts[i], ts, i + 1, processed \cup {ts[i].id})
             aliased == [ts[i] EXCEPT !.messages = r.current.messages,
                                      !.participants = r.current.participants]
         IN  MergeFrom([ts EXCEPT ![i] = aliased], i + 1,
                       Append(out, r.current), r.processed)

mergeSimilarThreads(ts) == MergeFrom(ts, 1, <<>>, {})

(***************************************************************************)
(* Task decomposition: distributeWorkDays                                  *)
(*                                                                         *)
(* The business days of the interval are numbered 1, 2, ... in date order. *)
(* Math.floor(i * (total / 2) / n) and Math.floor(i * (total / select))    *)
(* are computed on doubles; for totals up to 29 the double has the floor   *)
(* of the exact quotient, which is what the integer division here gives.   *)
(***************************************************************************)
MaxBusinessDays == 7

DefaultWorkdayHours == 8

BalanceStyles ==
    {"balanced", "front-loaded", "back-loaded", "ascending", "descending",
     "randomized"}

\* the task settings of the store's initialState: one day, 'equal'
InitialConfig ==
    [totalDaysWorked |-> 1, balanceStyle |-> "balanced", interval |-> "valid"]

\* isValid of validateWorkDays
validateWorkDays(cfg, days) == ~(cfg.totalDaysWorked > Len(days))

selectBalanced(total, select) ==
    [n \in 1..select |-> ((n - 1) * total) \div select]

selectFrontLoaded(total, select) == [n \in 1..select |-> n - 1]

selectBackLoaded(total, select) == [n \in 1..select |-> total - select + n - 1]

\* the second loop of selectAscending and selectDescending
SecondHalf(total, remaining) ==
    [n \in 1..remaining |-> (total \div 2) + ((n - 1) * total) \div (2 * remaining)]

selectAscending(total, select) ==
    LET sections == (select + 2) \div 3
        firstHalf == [n \in 1..Min(sections, select) |->
                         ((n - 1) * total) \div (2 * sections)]
    IN  firstHalf \o SecondHalf(total, select - Len(firstHalf))

selectDescending(total, select) ==
    LET firstHalfDays == (select * 2) \div 3
        firstHalf == [n \in 1..Min(firstHalfDays, select) |->
                         ((n - 1) * total) \div (2 * firstHalfDays)]
    IN  firstHalf \o SecondHalf(total, select - Len(firstHalf))

RECURSIVE InAscendingOrder(_)
InAscendingOrder(S) ==
    IF S = {} THEN <<>> ELSE <<Least(S)>> \o InAscendingOrder(S \ {Least(S)})

\* the lists selectRandomized can return: the shuffle depends on
\* Math.random, so any `select` of the indices, in ascending order
selectRandomized(total, select) ==
    {InAscendingOrder(S) : S \in {R \in SUBSET (0..(total - 1)) : Cardinality(R) = select}}

\* the lists selectWorkDayIndices can return: one, except for 'randomized'
selectWorkDayIndices(totalDays, daysToSelect, style) ==
    IF daysToSelect >= totalDays THEN {[n \in 1..totalDays |-> n - 1]}
    ELSE CASE style = "balanced" -> {selectBalanced(totalDays, daysToSelect)}
           [] style = "front-loaded" -> {selectFrontLoaded(totalDays, daysToSelect)}
           [] style = "back-loaded" -> {selectBackLoaded(totalDays, daysToSelect)}
           [] style = "ascending" -> {selectAscending(totalDays, daysToSelect)}
           [] style = "descending" -> {selectDescending(totalDays, daysToSelect)}
           [] style = "randomized" -> selectRandomized(totalDays, daysToSelect)
           [] OTHER -> {selectBalanced(totalDays, daysToSelect)}

\* businessDays.map(...) for the selected indices
WorkDaysFor(days, selectedIndices) ==
    [index \in 1..Len(days) |->
        LET worked == \E n \in 1..Len(selectedIndices) : selectedIndices[n] = index - 1
        IN  [date |-> days[index], worked |-> worked,
             hoursWorked |-> IF worked THEN DefaultWorkdayHours ELSE 0,
             startTime |-> IF worked THEN "08:00" ELSE "",
             endTime |-> IF worked THEN "16:00" ELSE ""]]

\* the work logs distributeWorkDays can return
distributeWorkDays(cfg, days) ==
    {WorkDaysFor(days, selectedIndices) :
        selectedIndices \in
            selectWorkDayIndices(Len(days), cfg.totalDaysWorked, cfg.balanceStyle)}

(***************************************************************************)
(* The application store                                                   *)
(*                                                                         *)
(* The generated output is the sequence of its parts: a summary header, a  *)
(* note per selected record headed by its dateStr, the email verbatim, or  *)
(* the work log or error line of task mode.                                *)
(***************************************************************************)
NoTimestamp == -1

Workflow(s, p, m) == [state |-> s, progress |-> p, message |-> m]

InitialWorkflow == Workflow("idle", 0, <<"Ready">>)

\* no manual record is added: manualPOCs stays as in initialState
ManualPOCs == <<>>

generateCaseNotes(detectedPOCs, selected, input) ==
    LET totalPOCs == Len(detectedPOCs) + Len(ManualPOCs)
        selectedPOCs ==
            IF Len(selected) > 0
            THEN SelectSeq(detectedPOCs,
                           LAMBDA poc : \E i \in 1..Len(selected) : selected[i] = poc.dateStr)
            ELSE detectedPOCs
    IN  (IF totalPOCs > 1 THEN <<[kind |-> "summary", dateStr |-> <<>>,
                                   verbatim |-> <<ToString(totalPOCs)>>]>>
         ELSE <<>>)
        \o [i \in 1..Len(selectedPOCs) |->
               [kind |-> "note", dateStr |-> selectedPOCs[i].dateStr,
                verbatim |-> selectedPOCs[i].context]]
        \o (IF totalPOCs = 1 /\ input # <<>>
            THEN <<[kind |-> "emailVerbatim", dateStr |-> <<>>, verbatim |-> input]>>
            ELSE <<>>)

\* the outputs generateTasks can return on a readable interval
generateTasks(cfg, days) ==
    IF ~validateWorkDays(cfg, days)
    THEN {<<[kind |-> "error", dateStr |-> <<>>, verbatim |-> <<"ERROR: ">>]>>}
    ELSE {<<[kind |-> "workLog", dateStr |-> <<>>, verbatim |-> log]>> :
             log \in distributeWorkDays(cfg, days)}

(***************************************************************************)
(* Specifications                                                          *)
(***************************************************************************)
SeqsUpTo(S, n) == UNION {[1..k -> S] : k \in 0..n}

IdleExtract ==
    universalInput = <<>> /\ dates = <<>> /\ content = <<>> /\ hasLastDate = FALSE /\ pocs = <<>>
IdleParse == expr = Expr("garbage", 0, 0) /\ parsed = NullDate
IdleNormalize == subject = <<>> /\ normalized = <<>> /\ renormalized = <<>>
IdleThreads == emails = <<>> /\ threads = <<>> /\ handled = 0 /\ merged = <<>>
IdleScore == email = NoId /\ thread = NoId /\ score = Literal(0)
IdleTask == config = InitialConfig /\ businessDays = <<>> /\ workDays = <<>>
IdleStore ==
    /\ selectedPOCDates = <<>>
    /\ generatedOutput = <<>>
    /\ workflow = InitialWorkflow
    /\ currentMode = "email"
    /\ timers = 0
    /\ lastSavedDraft = <<>>
    /\ draftTimestamp = NoTimestamp

(***************************************************************************)
(* Direct calls of consolidate on arbitrary ExtractedDate lists            *)
(***************************************************************************)
RefDays == {370, 371}          \* January 5 and 6, 2025
TimesOfDay == {0, 630}
Contexts == {<<"Email header: A">>, <<"Email header: B">>, <<"Last response: C">>}
Contents == {<<"raw universalInput">>}

ExtractedDates ==
    {ExtractedDate(d, c, c = <<"Last response: C">>) :
        d \in {[day |-> 370, tod |-> 0], [day |-> 371, tod |-> 0],
               [day |-> 371, tod |-> 630]},
        c \in Contexts}

InitConsolidate ==
    /\ now \in [day : {371}, tod : TimesOfDay]
    /\ dates \in SeqsUpTo(ExtractedDates, MaxDates)
    /\ content \in Contents
    /\ hasLastDate \in BOOLEAN
    /\ universalInput = <<>>
    /\ pocs = <<>>
    /\ IdleParse /\ IdleNormalize /\ IdleThreads /\ IdleScore
    /\ IdleTask /\ IdleStore
    /\ pc = "call"

Consolidate ==
    /\ pc = "call"
    /\ pocs' = consolidate(dates, content, hasLastDate, now)
    /\ pc' = "done"
    /\ UNCHANGED <<now, universalInput, dates, content, hasLastDate, parseVars,
                   normalizeVars, threadVars, scoreVars, taskVars, storeVars>>

NextConsolidate == Consolidate

SpecConsolidate == InitConsolidate /\ [][NextConsolidate]_vars

(***************************************************************************)
(* The store's analyzeUniversalInput on a pasted universalInput                      *)
(***************************************************************************)
HeaderDays == {371, 372}       \* January 6 and 7, 2025

HeaderLines ==
    {Line("header", "wdMDY", FALSE, Expr("full", d, 0)) : d \in HeaderDays}
    \cup {Line("header", "wdMDYtime", FALSE, Expr("full", 371, 630)),
          Line("header", "wdMDY", TRUE, Expr("full", 371, 0)),
          Line("header", "MDY", FALSE, Expr("full", 371, 0)),
          Line("header", "wdSlash", FALSE, Expr("full", 372, 0)),
          Line("header", "wdMDY", FALSE, Expr("garbage", 0, 0))}

OverrideExprs ==
    {Expr("full", 370, 0), Expr("full", 371, 0), Expr("keyword", 1, 0),
     Expr("garbage", 0, 0)}

MarkerLines ==
    {Line("marker", "exact", FALSE, e) : e \in OverrideExprs}
    \cup {Line("marker", f, FALSE, Expr("full", 370, 0)) : f \in {"lower", "open", "empty"}}

OtherLines ==
    {Line("body", "prose", FALSE, Expr("full", 373, 0)),
     Line("script", "markup", FALSE, Expr("garbage", 0, 0))}

Lines == HeaderLines \cup MarkerLines \cup OtherLines

InitAnalyze ==
    /\ now = [day |-> 372, tod |-> 630]
    /\ universalInput \in SeqsUpTo(Lines, MaxLines)
    /\ dates = <<>> /\ content = <<>> /\ hasLastDate = FALSE /\ pocs = <<>>
    /\ IdleParse /\ IdleNormalize /\ IdleThreads /\ IdleScore
    /\ IdleTask /\ IdleStore
    /\ pc = "call"

\* the body of analyzeUniversalInput(input); dates, content and hasLastDate
\* keep what it handed to consolidate
AnalyzeInput(input) ==
    LET sanitized == sanitizeEmailContent(input)
        ds == extractDates(sanitized, now)
        hl == hasLastDateMarker(sanitized)
        found == consolidate(ds, input, hl, now)
    IN  /\ dates' = ds
        /\ hasLastDate' = hl
        /\ content' = input
        /\ pocs' = found
        /\ selectedPOCDates' = [i \in 1..Len(found) |-> found[i].dateStr]

analyzeUniversalInput ==
    /\ pc = "call"
    /\ AnalyzeInput(universalInput)
    /\ pc' = "done"
    /\ UNCHANGED <<now, universalInput, parseVars, normalizeVars, threadVars,
                   scoreVars, taskVars, generatedOutput, workflow, currentMode,
                   timers, lastSavedDraft, draftTimestamp>>

NextAnalyze == analyzeUniversalInput

SpecAnalyze == InitAnalyze /\ [][NextAnalyze]_vars

(***************************************************************************)
(* Calls of parseDate                                                      *)
(***************************************************************************)
\* Monday January 27 .. Sunday February 2, 2025; February 29, 2024;
\* December 1 and December 31, 2025
ParseDays == (392..398) \cup {59, 700, 730}

ParseExprs ==
    {Expr("keyword", k, 0) : k \in {-1, 0, 1}}
    \cup {Expr("weekday", w, 0) : w \in 0..6}
    \cup {Expr(k, w, 0) : k \in {"next", "last"}, w \in -1..6}
    \cup {Expr("ordinal", n, 0) : n \in {0, 1, 2, 15, 28, 29, 30, 31, 32}}
    \cup {Expr("monthday", m, n) : m \in {-1, 0, 1, 11}, n \in {0, 1, 29, 31}}
    \cup {Expr("slash", m, n) : m \in {0, 1, 2, 13}, n \in {1, 30}}
    \cup {Expr(k, 0, 0) : k \in {"endOfWeek", "endOfMonth", "beginningOfWeek",
                                  "beginningOfMonth"}}
    \cup {Expr("full", 371, t) : t \in TimesOfDay}
    \cup {Expr("garbage", 0, 0)}

InitParse ==
    /\ now \in [day : ParseDays, tod : TimesOfDay]
    /\ expr \in ParseExprs
    /\ parsed = NullDate
    /\ IdleExtract /\ IdleNormalize /\ IdleThreads /\ IdleScore
    /\ IdleTask /\ IdleStore
    /\ pc = "call"

ParseDate ==
    /\ pc = "call"
    /\ parsed' = parseDate(expr, now)
    /\ pc' = "done"
    /\ UNCHANGED <<now, expr, extractVars, normalizeVars, threadVars, scoreVars,
                   taskVars, storeVars>>

NextParse == ParseDate

SpecParse == InitParse /\ [][NextParse]_vars

(***************************************************************************)
(* Calls of normalizeSubject                                               *)
(***************************************************************************)
SubjectTokens == {"RE:", "Fwd:", " ", "x", "Y"}

InitNormalize ==
    /\ now = [day |-> 372, tod |-> 0]
    /\ subject \in SeqsUpTo(SubjectTokens, MaxSubjectLen)
    /\ normalized = <<>> /\ renormalized = <<>>
    /\ IdleExtract /\ IdleParse /\ IdleThreads /\ IdleScore
    /\ IdleTask /\ IdleStore
    /\ pc = "call"

Normalize ==
    /\ pc = "call"
    /\ normalized' = normalizeSubject(subject)
    /\ pc' = "once"
    /\ UNCHANGED <<now, subject, renormalized, extractVars, parseVars, threadVars,
                   scoreVars, taskVars, storeVars>>

NormalizeAgain ==
    /\ pc = "once"
    /\ renormalized' = normalizeSubject(normalized)
    /\ pc' = "twice"
    /\ UNCHANGED <<now, subject, normalized, extractVars, parseVars, threadVars,
                   scoreVars, taskVars, storeVars>>

NextNormalize == Normalize \/ NormalizeAgain

SpecNormalize == InitNormalize /\ [][NextNormalize]_vars

(***************************************************************************)
(* detectEmailThreads, one loop iteration per step, then                   *)
(* mergeSimilarThreads on the list it returned                             *)
(***************************************************************************)
ThreadSubjects == {<<"RE:", " ", "x">>, <<"x", " ", "y">>}
People ==
    {[from |-> "a", to |-> {"b"}, cc |-> {}],
     [from |-> "c", to |-> {"a"}, cc |-> {"b"}]}
ThreadTimes == {0, 168}
Replies ==
    {[inReplyTo |-> NoId, references |-> <<>>],
     [inReplyTo |-> 1, references |-> <<2>>]}

NoReply == [inReplyTo |-> NoId, references |-> <<>>]

\* the i-th message of the input: its messageId is its position
Email(i, s, p, t, r) ==
    [id |-> i, from |-> p.from, to |-> p.to, cc |-> p.cc, subject |-> s,
     date |-> t, messageId |-> i, inReplyTo |-> r.inReplyTo,
     references |-> r.references]

EmailChoices == ThreadSubjects \X People \X ThreadTimes \X Replies

InitThreads ==
    /\ now = [day |-> 33, tod |-> 0]
    /\ \E n \in 0..MaxEmails : \E f \in [1..n -> EmailChoices] :
          emails = [i \in 1..n |-> Email(i, f[i][1], f[i][2], f[i][3], f[i][4])]
    /\ threads = <<>>
    /\ handled = 0
    /\ merged = <<>>
    /\ IdleExtract /\ IdleParse /\ IdleNormalize /\ IdleScore
    /\ IdleTask /\ IdleStore
    /\ pc = "detect"

\* one iteration of the loop over sortedEmails
ProcessEmail ==
    /\ pc = "detect"
    /\ handled < Len(emails)
    /\ LET e == SortedEmails(emails)[handled + 1]
           threadKey == findBestThreadMatch(e, threads)
       IN  threads' = IF threadKey # 0
                      THEN [threads EXCEPT ![threadKey] = addEmailToThread(@, e)]
                      ELSE Append(threads, createNewThread(e, Len(threads) + 1))
    /\ handled' = handled + 1
    /\ UNCHANGED <<now, emails, merged, pc, extractVars, parseVars, normalizeVars,
                   scoreVars, taskVars, storeVars>>

\* the post-processing map and the return
PostProcess ==
    /\ pc = "detect"
    /\ handled = Len(emails)
    /\ threads' = [i \in 1..Len(threads) |->
                      [threads[i] EXCEPT
                          !.isActive = isThreadActive(threads[i], now),
                          !.summary = generateThreadSummary(threads[i])]]
    /\ pc' = "detected"
    /\ UNCHANGED <<now, emails, handled, merged, extractVars, parseVars,
                   normalizeVars, scoreVars, taskVars, storeVars>>

MergeSimilarThreads ==
    /\ pc = "detected"
    /\ LET r == mergeSimilarThreads(threads)
       IN  /\ merged' = r.merged
           /\ threads' = r.input
    /\ pc' = "merged"
    /\ UNCHANGED <<now, emails, handled, extractVars, parseVars, normalizeVars,
                   scoreVars, taskVars, storeVars>>

NextThreads == ProcessEmail \/ PostProcess \/ MergeSimilarThreads

SpecThreads == InitThreads /\ [][NextThreads]_vars

(***************************************************************************)
(* detectEmailThreads on two messages of one conversation, 3 hours apart,  *)
(* and an unrelated third message 40 days after the first                  *)
(***************************************************************************)
ConversationStart == 0
ThirdMessageTime == 40 * HoursPerDay
ScenarioNowDays == {40, 41, 55, 69, 70, 71, 72}
ScenarioSubjects == {<<"x", " ", "y">>, <<"RE:", " ", "X", " ", "y">>}
ScenarioPeople ==
    {[from |-> "a", to |-> {"b"}, cc |-> {}],
     [from |-> "b", to |-> {"a"}, cc |-> {}]}
Orders == {f \in [1..3 -> 1..3] : {f[1], f[2], f[3]} = 1..3}

ScenarioEmails(s, p) ==
    <<Email(1, <<"x", " ", "Y">>, [from |-> "a", to |-> {"b"}, cc |-> {}],
            ConversationStart, NoReply),
      Email(2, s, p, ConversationStart + 3, NoReply),
      Email(3, <<"z">>, [from |-> "c", to |-> {"d"}, cc |-> {}],
            ThirdMessageTime, NoReply)>>

InitScenario ==
    /\ now \in [day : ScenarioNowDays, tod : TimesOfDay]
    /\ \E s \in ScenarioSubjects, p \in ScenarioPeople, order \in Orders :
          emails = [i \in 1..3 |-> ScenarioEmails(s, p)[order[i]]]
    /\ threads = <<>>
    /\ handled = 0
    /\ merged = <<>>
    /\ IdleExtract /\ IdleParse /\ IdleNormalize /\ IdleScore
    /\ IdleTask /\ IdleStore
    /\ pc = "detect"

NextScenario == ProcessEmail \/ PostProcess

SpecScenario == InitScenario /\ [][NextScenario]_vars

(***************************************************************************)
(* Calls of calculateThreadMatchScore                                      *)
(***************************************************************************)
ScoreSubjects == {<<"RE:", " ", "x">>, <<"x", " ", "y">>, <<"z">>}
ScorePeople ==
    People \cup {[from |-> "c", to |-> {}, cc |-> {}]}
ScoreTimes == {-3, 0, 72, 168, 960}
ScoreReplies ==
    {[inReplyTo |-> NoId, references |-> <<>>],
     [inReplyTo |-> 1, references |-> <<>>],
     [inReplyTo |-> NoId, references |-> <<3, 1>>]}

ScoreThreads ==
    {createNewThread(Email(1, s, p, 0, NoReply), 1) :
        s \in ScoreSubjects, p \in ScorePeople}
    \cup {addEmailToThread(createNewThread(Email(1, s, p, 0, NoReply), 1),
                           Email(2, s, q, 0, NoReply)) :
            s \in ScoreSubjects, p \in People, q \in People}

InitScore ==
    /\ now = [day |-> 33, tod |-> 0]
    /\ email \in {Email(9, s, p, t, r) :
                    s \in ScoreSubjects, p \in ScorePeople, t \in ScoreTimes,
                    r \in ScoreReplies}
    /\ thread \in ScoreThreads
    /\ score = Literal(0)
    /\ IdleExtract /\ IdleParse /\ IdleNormalize /\ IdleThreads
    /\ IdleTask /\ IdleStore
    /\ pc = "call"

CalculateScore ==
    /\ pc = "call"
    /\ score' = calculateThreadMatchScore(email, thread)
    /\ pc' = "done"
    /\ UNCHANGED <<now, email, thread, extractVars, parseVars, normalizeVars,
                   threadVars, taskVars, storeVars>>

NextScore == CalculateScore

SpecScore == InitScore /\ [][NextScore]_vars

(***************************************************************************)
(* generateTasks' use of validateWorkDays and distributeWorkDays           *)
(***************************************************************************)
InitDistribute ==
    /\ now = [day |-> 372, tod |-> 0]
    /\ \E total \in 0..MaxBusinessDays, k \in 0..(MaxBusinessDays + 1),
          style \in BalanceStyles :
          /\ config = [totalDaysWorked |-> k, balanceStyle |-> style,
                       interval |-> "valid"]
          /\ businessDays = [n \in 1..total |-> n]
    /\ workDays = <<>>
    /\ IdleExtract /\ IdleParse /\ IdleNormalize /\ IdleThreads /\ IdleScore
    /\ IdleStore
    /\ pc = "call"

\* if (!validation.isValid) return `ERROR: ...`
RejectWorkDays ==
    /\ pc = "call"
    /\ ~validateWorkDays(config, businessDays)
    /\ pc' = "rejected"
    /\ UNCHANGED <<now, extractVars, parseVars, normalizeVars, threadVars, scoreVars,
                   taskVars, storeVars>>

DistributeWorkDays ==
    /\ pc = "call"
    /\ validateWorkDays(config, businessDays)
    /\ workDays' \in distributeWorkDays(config, businessDays)
    /\ pc' = "done"
    /\ UNCHANGED <<now, config, businessDays, extractVars, parseVars, normalizeVars,
                   threadVars, scoreVars, storeVars>>

NextDistribute == RejectWorkDays \/ DistributeWorkDays

SpecDistribute == InitDistribute /\ [][NextDistribute]_vars

(***************************************************************************)
(* The store: its actions run to completion one at a time (none of them    *)
(* awaits before its last set), and the timeout callbacks of saveAsDraft   *)
(* run between them                                                        *)
(***************************************************************************)
MaxTimers == 2

StoreInputs ==
    {<<>>,
     <<Line("header", "wdMDY", FALSE, Expr("full", 371, 0))>>,
     <<Line("header", "wdMDY", FALSE, Expr("full", 371, 0)),
       Line("marker", "exact", FALSE, Expr("full", 372, 0))>>}

StoreConfigs ==
    {InitialConfig,
     [totalDaysWorked |-> 2, balanceStyle |-> "back-loaded", interval |-> "invalid"]}

StoreBusinessDays == <<1, 2, 3>>

InitStore ==
    /\ now = [day |-> 372, tod |-> 630]
    /\ universalInput \in StoreInputs
    /\ dates = <<>> /\ content = <<>> /\ hasLastDate = FALSE /\ pocs = <<>>
    /\ config \in StoreConfigs
    /\ businessDays = StoreBusinessDays
    /\ workDays = <<>>
    /\ IdleParse /\ IdleNormalize /\ IdleThreads /\ IdleScore
    /\ IdleStore
    /\ pc = "store"

setCurrentMode ==
    /\ pc = "store"
    /\ \E mode \in {"email", "task"} : currentMode' = mode
    /\ UNCHANGED <<now, pc, extractVars, parseVars, normalizeVars, threadVars,
                   scoreVars, taskVars, selectedPOCDates, generatedOutput, workflow,
                   timers, lastSavedDraft, draftTimestamp>>

analyzeContent ==
    /\ pc = "store"
    /\ IF currentMode = "email"
       THEN /\ AnalyzeInput(universalInput)
            /\ workflow' = Workflow("ready", 100,
                                    <<"Found ", ToString(Len(pocs')), " POCs">>)
       ELSE /\ workflow' = Workflow("ready", 100, <<"Ready to generate tasks">>)
            /\ UNCHANGED <<dates, content, hasLastDate, pocs, selectedPOCDates>>
    /\ UNCHANGED <<now, pc, universalInput, parseVars, normalizeVars, threadVars,
                   scoreVars, taskVars, generatedOutput, currentMode, timers,
                   lastSavedDraft, draftTimestamp>>

\* analyzeUniversalInput(input) called on the store in use
analyzePastedInput ==
    /\ pc = "store"
    /\ \E input \in StoreInputs : AnalyzeInput(input)
    /\ UNCHANGED <<now, pc, universalInput, parseVars, normalizeVars, threadVars,
                   scoreVars, taskVars, generatedOutput, workflow, currentMode,
                   timers, lastSavedDraft, draftTimestamp>>

\* an interval that parseISO cannot read makes eachDayOfInterval throw or
\* return no day, as the date-fns release decides
generateOutput ==
    /\ pc = "store"
    /\ LET complete == Workflow("complete", 100, <<"Generation complete!">>)
       IN  \/ /\ currentMode = "email"
              /\ generatedOutput' =
                    generateCaseNotes(pocs, selectedPOCDates, universalInput)
              /\ workflow' = complete
           \/ /\ currentMode # "email" /\ config.interval = "valid"
              /\ generatedOutput' \in generateTasks(config, businessDays)
              /\ workflow' = complete
           \/ /\ currentMode # "email" /\ config.interval # "valid"
              /\ generatedOutput' \in generateTasks(config, <<>>)
              /\ workflow' = complete
           \/ /\ currentMode # "email" /\ config.interval # "valid"
              /\ workflow' = Workflow("idle", 0, <<"Error: ", "Invalid interval">>)
              /\ UNCHANGED generatedOutput
    /\ UNCHANGED <<now, pc, extractVars, parseVars, normalizeVars, threadVars,
                   scoreVars, taskVars, selectedPOCDates, currentMode, timers,
                   lastSavedDraft, draftTimestamp>>

saveAsDraft ==
    /\ pc = "store"
    /\ timers < MaxTimers
    /\ lastSavedDraft' = generatedOutput
    /\ draftTimestamp' = getTime(now)
    /\ workflow' = [workflow EXCEPT !.message = <<"Draft saved successfully">>,
                                    !.state = "complete"]
    /\ timers' = timers + 1
    /\ UNCHANGED <<now, pc, extractVars, parseVars, normalizeVars, threadVars,
                   scoreVars, taskVars, selectedPOCDates, generatedOutput,
                   currentMode>>

\* the callback of setTimeout(..., 3000)
DraftTimerFires ==
    /\ pc = "store"
    /\ timers > 0
    /\ timers' = timers - 1
    /\ workflow' = [workflow EXCEPT !.message = <<"Ready">>, !.state = "idle"]
    /\ UNCHANGED <<now, pc, extractVars, parseVars, normalizeVars, threadVars,
                   scoreVars, taskVars, selectedPOCDates, generatedOutput,
                   currentMode, lastSavedDraft, draftTimestamp>>

NextStore ==
    \/ setCurrentMode
    \/ analyzeContent
    \/ analyzePastedInput
    \/ generateOutput
    \/ saveAsDraft
    \/ DraftTimerFires

SpecStore == InitStore /\ [][NextStore]_vars

(***************************************************************************)
(* Properties                                                              *)
(***************************************************************************)

\* C1: consolidate with hasLastDate = true returns no two records with the
\* same dateStr, one record per distinct formatted string of the input, and
\* the exchanges of the records sum to the number of input dates.
C1_ConsolidationInvariant ==
    (pc = "done" /\ hasLastDate) =>
        /\ \A i, j \in 1..Len(pocs) : i # j => pocs[i].dateStr # pocs[j].dateStr
        /\ {pocs[i].dateStr : i \in 1..Len(pocs)}
              = {dates[i].formatted : i \in 1..Len(dates)}
        /\ getTotalExchanges(pocs) = Len(dates)

C1_Witness ==
    pc = "done" /\ hasLastDate /\ Len(dates) = 3 /\ Len(pocs) = 2

\* C2: consolidate with hasLastDate = false returns exactly one record, of
\* type pending, with the placeholder dateStr and the raw text as content,
\* whatever the dates list holds; nothing of the input dates is in it.
C2_PendingSentinel ==
    (pc = "done" /\ ~hasLastDate) =>
        /\ Len(pocs) = 1
        /\ pocs[1].type = "pending"
        /\ pocs[1].dateStr = PendingDateStr
        /\ pocs[1].content = content
        /\ \A i \in 1..Len(dates) :
              /\ dates[i].formatted # pocs[1].dateStr
              /\ dates[i].context # pocs[1].context

C2_Witness ==
    pc = "done" /\ ~hasLastDate /\ Len(dates) = 3 /\ Len(pocs) = 1

\* C5 as claimed: a bare weekday name resolves to a day strictly after the
\* reference day and at most 6 days after it.
C5_AtMostSixDays ==
    (pc = "done" /\ expr.kind = "weekday") =>
        /\ parsed # NullDate
        /\ getTime(parsed) > getTime(now)
        /\ parsed.day - now.day <= 6

\* C5 amended: a bare weekday name resolves to the next day of that weekday
\* strictly after the reference day, 1 to 7 days later, and 7 days later
\* exactly when the reference day is that weekday.
C5_AtMostSevenDays ==
    (pc = "done" /\ expr.kind = "weekday") =>
        /\ parsed # NullDate
        /\ getTime(parsed) > getTime(now)
        /\ parsed.day - now.day \in 1..7
        /\ getDay(parsed) = expr.a
        /\ (parsed.day - now.day = 7) <=> (getDay(now) = expr.a)

C5_Witness ==
    /\ pc = "done" /\ expr.kind = "weekday"
    /\ getDay(now) = expr.a /\ parsed.day = now.day + 7

\* C6: normalizing a normalized subject returns it unchanged.
C6_Idempotent ==
    pc = "twice" => renormalized = normalized

\* the header and marker lines of a text, and what the claims on whole texts
\* assume of them
HeadersOf(t) == SelectSeq(t, LAMBDA l : l.kind = "header")
MarkersOf(t) == SelectSeq(t, LAMBDA l : l.kind = "marker")
HeaderDaySet(t) == {HeadersOf(t)[i].expr.a : i \in 1..Len(HeadersOf(t))}
AllHeadersResolve(t) == \A i \in 1..Len(HeadersOf(t)) : HeadersOf(t)[i].expr.kind = "full"
ParseableOverride(t) ==
    /\ Len(MarkersOf(t)) = 1
    /\ MarkersOf(t)[1].form = "exact"
    /\ parseDate(MarkersOf(t)[1].expr, now) # NullDate
OverrideDay(t) == parseDate(MarkersOf(t)[1].expr, now).day
DayStr(d) == formatDate([day |-> d, tod |-> 0])
Ascending(ps) == \A i \in 1..(Len(ps) - 1) : getTime(ps[i].date) < getTime(ps[i + 1].date)

SameDayHeaders ==
    /\ pc = "done"
    /\ ParseableOverride(universalInput)
    /\ AllHeadersResolve(universalInput)
    /\ Len(HeadersOf(universalInput)) >= 2
    /\ Cardinality(HeaderDaySet(universalInput)) = 1

\* C7 as claimed: N >= 2 header lines on one day plus a parseable override
\* give exactly one record, with exchanges = N and that day's dateStr.
C7_OneRecordCountingHeaders ==
    SameDayHeaders =>
        /\ Len(pocs) = 1
        /\ pocs[1].exchanges = Len(HeadersOf(universalInput))
        /\ \A d \in HeaderDaySet(universalInput) : pocs[1].dateStr = DayStr(d)

\* C7 amended: N >= 2 header lines on one day D plus a parseable override on
\* day O give one record for D with D's dateStr; the header lines count once:
\* when O = D it is the only record and has exchanges = 2 (the header entry
\* and the override), when O # D it has exchanges = 1 and a second record
\* with exchanges = 1 stands for O.
C7_OneRecordPerDay ==
    SameDayHeaders =>
        \A d \in HeaderDaySet(universalInput) :
            LET o == OverrideDay(universalInput)
            IN  IF o = d
                THEN /\ Len(pocs) = 1
                     /\ pocs[1].exchanges = 2
                     /\ pocs[1].dateStr = DayStr(d)
                ELSE /\ Len(pocs) = 2
                     /\ \A i \in 1..2 : pocs[i].exchanges = 1
                     /\ {pocs[1].dateStr, pocs[2].dateStr} = {DayStr(d), DayStr(o)}

C7_Witness ==
    /\ SameDayHeaders
    /\ OverrideDay(universalInput) \notin HeaderDaySet(universalInput)
    /\ Len(pocs) = 2

TwoDayHeaders ==
    /\ pc = "done"
    /\ ParseableOverride(universalInput)
    /\ AllHeadersResolve(universalInput)
    /\ Cardinality(HeaderDaySet(universalInput)) = 2

\* C8 as claimed: header lines on exactly two days plus a parseable override
\* give exactly two records, ascending, each with exchanges = 1.
C8_TwoRecords ==
    TwoDayHeaders =>
        /\ Len(pocs) = 2
        /\ Ascending(pocs)
        /\ \A i \in 1..Len(pocs) : pocs[i].exchanges = 1

\* C8 amended: header lines on exactly two days plus a parseable override on
\* day O give one record per distinct day among the two header days and O, in
\* ascending date order: three records with exchanges = 1 when O is a third
\* day; two records when O is one of the header days, the record of O with
\* exchanges = 2 and the other with exchanges = 1.
C8_RecordPerDay ==
    TwoDayHeaders =>
        LET o == OverrideDay(universalInput)
            days == HeaderDaySet(universalInput) \cup {o}
        IN  /\ Len(pocs) = Cardinality(days)
            /\ {pocs[i].dateStr : i \in 1..Len(pocs)} = {DayStr(d) : d \in days}
            /\ Ascending(pocs)
            /\ \A i \in 1..Len(pocs) :
                  pocs[i].exchanges =
                      IF pocs[i].dateStr = DayStr(o) /\ o \in HeaderDaySet(universalInput)
                      THEN 2 ELSE 1

C8_Witness ==
    /\ TwoDayHeaders
    /\ Len(pocs) = 3
    /\ dates[1].isLastDate /\ pocs[3].isLastDate

\* where the messages of the threads are: <<thread index, message index>>
Positions(ts) == {<<t, k>> \in (1..Len(ts)) \X (1..MaxEmails + 1) : k <= Len(ts[t].messages)}

\* C3: detectEmailThreads partitions its input: every input message is in
\* exactly one returned thread, exactly once, and the threads' message counts
\* sum to the number of input messages.
C3_Partition ==
    pc = "detected" =>
        /\ \A i \in 1..Len(emails) :
              Cardinality({p \in Positions(threads) :
                              threads[p[1]].messages[p[2]] = emails[i]}) = 1
        /\ Cardinality(Positions(threads)) = Len(emails)

C3_Witness ==
    /\ pc = "detected" /\ Len(emails) = 3 /\ Len(threads) = 2

\* one iteration of the detection loop, seen as a step: the message placed,
\* its score against each thread before the step, and what the step did
IsLoopStep == pc = "detect" /\ handled < Len(emails) /\ handled' = handled + 1
StepEmail == SortedEmails(emails)[handled + 1]
StepScore(i) == calculateThreadMatchScore(StepEmail, threads[i])
NoneAbove == \A i \in 1..Len(threads) : ~Greater(StepScore(i), Threshold)
TopTie ==
    \E i, j \in 1..Len(threads) :
        /\ i # j
        /\ StepScore(i) = StepScore(j)
        /\ \A k \in 1..Len(threads) : ~Greater(StepScore(k), StepScore(i))
Joined(i) ==
    /\ Len(threads') = Len(threads)
    /\ threads'[i].messages = Append(threads[i].messages, StepEmail)
    /\ \A j \in 1..Len(threads) : j # i => threads'[j] = threads[j]
StartedNew ==
    /\ Len(threads') = Len(threads) + 1
    /\ threads'[Len(threads')].messages = <<StepEmail>>
    /\ \A j \in 1..Len(threads) : threads'[j] = threads[j]

\* C4 as claimed: a message joins a thread only when that thread is the
\* single highest-scoring one and scores above 0.7; when threads tie for the
\* highest score, or none scores above 0.7, it starts a new singleton thread.
C4_TiesStartNewThread ==
    [][IsLoopStep =>
        /\ \A i \in 1..Len(threads) :
              Joined(i) =>
                  /\ Greater(StepScore(i), Threshold)
                  /\ \A j \in 1..Len(threads) :
                        j # i => Greater(StepScore(i), StepScore(j))
        /\ (NoneAbove \/ TopTie) => StartedNew]_vars

\* C4 amended: a message joins a thread only when that thread scores above
\* 0.7 and no thread scores higher; when several threads tie for that highest
\* score the message joins the earliest created of them; when no thread
\* scores above 0.7 (0.7 itself included) it starts a new singleton thread.
C4_FirstOfTheBestJoins ==
    [][IsLoopStep =>
        /\ \A i \in 1..Len(threads) :
              Joined(i) =>
                  /\ Greater(StepScore(i), Threshold)
                  /\ \A j \in 1..Len(threads) : ~Greater(StepScore(j), StepScore(i))
                  /\ \A j \in 1..(i - 1) : Greater(StepScore(i), StepScore(j))
        /\ NoneAbove => StartedNew
        /\ ~NoneAbove => \E i \in 1..Len(threads) : Joined(i)]_vars

\* the third message tied between the two threads and joined the first
C4_Witness ==
    /\ pc = "detect" /\ handled = 3 /\ Len(threads) = 2
    /\ Len(threads[1].messages) = 2
    /\ threads[1].messages[2] = SortedEmails(emails)[3]
    /\ LET e == threads[1].messages[2]
           before == createNewThread(threads[1].messages[1], 1)
       IN  /\ calculateThreadMatchScore(e, before)
                 = calculateThreadMatchScore(e, threads[2])
           /\ Greater(calculateThreadMatchScore(e, before), Threshold)

WithSubject(e, s) == [e EXCEPT !.subject = s]
UnrelatedSubject == <<"q">>

\* C9: the score lies in [0, 1], and with an exact subject match it is at
\* least the score of the same pair with a subject that contributes nothing.
C9_ScoreRangeAndMonotone ==
    pc = "done" =>
        /\ ~Greater(Literal(0), score)
        /\ ~Greater(score, Literal(ScoreScale))
        /\ SubjectTerm(WithSubject(email, UnrelatedSubject), thread) = 0
        /\ SubjectTerm(WithSubject(email, thread.subject), thread) = SubjectWeight
        /\ ~Greater(calculateThreadMatchScore(WithSubject(email, UnrelatedSubject), thread),
                    calculateThreadMatchScore(WithSubject(email, thread.subject), thread))

C9_Witness ==
    /\ pc = "done"
    /\ normalizeSubject(email.subject) = thread.subject
    /\ Greater(score, calculateThreadMatchScore(WithSubject(email, UnrelatedSubject), thread))
    /\ Greater(score, Threshold)

ThreadCoversMessages(t) ==
    \A k \in 1..Len(t.messages) :
        /\ t.startDate <= t.messages[k].date
        /\ t.messages[k].date <= t.endDate
        /\ {t.messages[k].from} \cup t.messages[k].to \cup t.messages[k].cc
              \subseteq t.participants

\* C10: in every thread detectEmailThreads returns, and in every thread
\* mergeSimilarThreads returns for them, startDate <= the date of every
\* member message <= endDate, and participants holds the from, every to and
\* every cc address of every member message.
C10_ThreadBounds ==
    /\ pc = "detected" => \A i \in 1..Len(threads) : ThreadCoversMessages(threads[i])
    /\ pc = "merged" => \A i \in 1..Len(merged) : ThreadCoversMessages(merged[i])

C10_Witness ==
    /\ pc = "merged" /\ Len(merged) = 1 /\ Len(threads) = 2
    /\ Len(merged[1].messages) = 3
    /\ merged[1].startDate < merged[1].endDate

\* a Date that holds a time value, as opposed to null
IsDate(d) == d.day >= 0 /\ d.tod \in 0..(MinutesPerDay - 1)
HeaderDatesOf(ds) == SelectSeq(ds, LAMBDA d : ~d.isLastDate)
Candidates == HeaderCaptures(sanitizeEmailContent(universalInput), 1)

\* C11: parseDate returns a date or null for every candidate string, and
\* extractDates returns entries for exactly the parseable candidates: an
\* unparseable candidate is skipped and the candidates after it still count.
C11_UnparseableSkipped ==
    pc = "done" =>
        LET m == LastDateMatch(sanitizeEmailContent(universalInput))
            override == parseDate(m.expr, now)
            cands == Candidates
            results == {parseDate(cands[i].expr, now) : i \in 1..Len(cands)}
            returned == {dates[k].date : k \in {j \in 1..Len(dates) : ~dates[j].isLastDate}}
        IN  /\ m.found => (override = NullDate \/ IsDate(override))
            /\ \A d \in results : d = NullDate \/ IsDate(d)
            /\ \A d \in results \ {NullDate} : \E r \in returned : r.day = d.day
            /\ returned \subseteq results \ {NullDate}
            /\ \A k \in 1..Len(dates) : IsDate(dates[k].date)

\* an unparseable header candidate came before a parseable one
C11_Witness ==
    /\ pc = "done"
    /\ Len(Candidates) >= 2
    /\ parseDate(Candidates[1].expr, now) = NullDate
    /\ parseDate(Candidates[2].expr, now) # NullDate
    /\ Len(HeaderDatesOf(dates)) = 1

\* C12 as claimed: every non-null result of parseDate is the start of its
\* calendar day, whichever rule produced it.
C12_AlwaysStartOfDay ==
    (pc = "done" /\ parsed # NullDate) => parsed.tod = 0

\* the rules whose result goes through startOfDay or is built by
\* new Date(year, month, day)
StartOfDayKinds == {"ordinal", "monthday", "slash", "endOfMonth", "beginningOfMonth", "full"}

\* C12 amended: the results of the ordinal, month-day, MM/DD, end of month,
\* beginning of month and fallback rules are the start of their day; the
\* results of the keyword, bare weekday, next/last weekday, end of week and
\* beginning of week rules carry the time of day of the reference 'now'.
C12_StartOfDayOrTimeOfNow ==
    (pc = "done" /\ parsed # NullDate) =>
        IF expr.kind \in StartOfDayKinds THEN parsed.tod = 0 ELSE parsed.tod = now.tod

C12_Witness ==
    /\ pc = "done" /\ now.tod > 0
    /\ expr = Expr("keyword", 0, 0)
    /\ parsed = now

\* C13: with the override present, consolidate returns its records in
\* ascending date order whatever the order of the input: of two consecutive
\* records the first has the earlier or equal date and the strictly earlier
\* calendar day.
C13_SortedAscending ==
    (pc = "done" /\ hasLastDate) =>
        \A i \in 1..(Len(pocs) - 1) :
            /\ getTime(pocs[i].date) <= getTime(pocs[i + 1].date)
            /\ pocs[i].date.day < pocs[i + 1].date.day

\* the input came latest day first and the output is not empty of pairs
C13_Witness ==
    /\ pc = "done" /\ hasLastDate
    /\ Len(dates) = 3 /\ Len(pocs) = 2
    /\ dates[1].date.day > dates[3].date.day
    /\ pocs[1].date.day < pocs[2].date.day

\* the contexts of the input dates of one day, in input order
ContextsOfDay(ds, dateStr) ==
    LET sameDay == SelectSeq(ds, LAMBDA d : d.formatted = dateStr)
    IN  [i \in 1..Len(sameDay) |-> sameDay[i].context]

\* C14: with the override present, a record with exchanges = 1 has the
\* context of the single input date of its day, unchanged; a record with
\* exchanges = N > 1 has combinedContext equal to the N input contexts of its
\* day in input order and context equal to "<N> exchanges on this day: "
\* followed by those contexts joined with "; ".
C14_ContextRoundTrip ==
    (pc = "done" /\ hasLastDate) =>
        \A i \in 1..Len(pocs) :
            LET cs == ContextsOfDay(dates, pocs[i].dateStr)
            IN  /\ pocs[i].exchanges = Len(cs)
                /\ pocs[i].exchanges = 1 => pocs[i].context = cs[1]
                /\ pocs[i].exchanges > 1 =>
                      /\ pocs[i].combinedContext = cs
                      /\ pocs[i].context =
                            <<ToString(Len(cs)), " exchanges on this day: ">>
                                \o join(cs, <<"; ">>)

\* one record of a single exchange beside one of two exchanges whose
\* contexts differ
C14_Witness ==
    /\ pc = "done" /\ hasLastDate
    /\ Len(pocs) = 2
    /\ pocs[1].exchanges = 1 /\ pocs[1].context = <<"Email header: B">>
    /\ pocs[2].exchanges = 2
    /\ pocs[2].context = <<"2", " exchanges on this day: ", "Last response: C", "; ",
                           "Email header: A">>

MessageIds(t) == {t.messages[k].id : k \in 1..Len(t.messages)}

\* the two messages of the conversation share a thread and the third
\* message has the second thread to itself
ScenarioGrouping ==
    /\ Len(threads) = 2
    /\ MessageIds(threads[1]) = {1, 2} /\ Len(threads[1].messages) = 2
    /\ MessageIds(threads[2]) = {3} /\ Len(threads[2].messages) = 1

\* C15 as claimed: the scenario gives the two threads, and the thread of the
\* third message is inactive at 'now'.
C15_ThirdThreadInactive ==
    pc = "detected" => (ScenarioGrouping /\ ~threads[2].isActive)

\* C15 amended: the scenario gives the two threads; the thread of the third
\* message is inactive exactly when 'now' is 30 days or more after the third
\* message, and active before that.
C15_ThirdThreadInactiveAfterThirtyDays ==
    pc = "detected" =>
        /\ ScenarioGrouping
        /\ ~threads[2].isActive <=>
              (NowHours(now) - ThirdMessageTime >= ActiveDays * HoursPerDay)

\* evaluated exactly 30 days after the third message
C15_Witness ==
    /\ pc = "detected"
    /\ ScenarioGrouping
    /\ now = [day |-> 70, tod |-> 0]
    /\ ~threads[2].isActive

\* the extractor's override pattern matched somewhere in the sanitized input
OverrideRecognized == LastDateMatch(sanitizeEmailContent(universalInput)).found

CandidatesOfDay(dateStr) ==
    SelectSeq(Candidates,
              LAMBDA c : /\ parseDate(c.expr, now) # NullDate
                         /\ formatDate(parseDate(c.expr, now)) = dateStr)

MalformedOverride ==
    /\ pc = "done"
    /\ Len(MarkersOf(universalInput)) = 1
    /\ MarkersOf(universalInput)[1].form \in {"exact", "empty"}
    /\ LastDateMatch(sanitizeEmailContent(universalInput)).found
    /\ parseDate(LastDateMatch(sanitizeEmailContent(universalInput)).expr, now) = NullDate

WithoutMarker(t) == SelectSeq(t, LAMBDA l : l.kind # "marker")

\* C18: with a marker whose date text is unparseable, extractDates returns
\* the header dates of the same text without the marker and no override
\* entry, hasLastDateMarker is true, and consolidation works on the header
\* dates alone: no pending record, and no record at all without header dates.
C18_MalformedOverrideDropped ==
    MalformedOverride =>
        /\ dates = extractDates(sanitizeEmailContent(WithoutMarker(universalInput)), now)
        /\ \A k \in 1..Len(dates) : ~dates[k].isLastDate
        /\ hasLastDate
        /\ \A i \in 1..Len(pocs) : pocs[i].type # "pending"
        /\ Len(pocs) = Cardinality({dates[k].formatted : k \in 1..Len(dates)})
        /\ \A i \in 1..Len(pocs) :
              \E k \in 1..Len(dates) : pocs[i].dateStr = dates[k].formatted
        /\ dates = <<>> => pocs = <<>>

\* an unparseable marker beside two header days
C18_Witness ==
    /\ MalformedOverride
    /\ MarkersOf(universalInput)[1].expr = Expr("garbage", 0, 0)
    /\ MarkersOf(universalInput)[1].form = "exact"
    /\ Len(dates) = 2 /\ Len(pocs) = 2

\* C19: "next W" resolves to the day k days after the reference day and
\* "last W" to the day k days before it, with k in 1..7; the resolved day is
\* a W; k is 7 exactly when the reference day is a W, so neither resolves to
\* the reference day.
C19_NextLastWeekday ==
    (pc = "done" /\ expr.kind \in {"next", "last"} /\ expr.a >= 0) =>
        LET k == IF expr.kind = "next" THEN parsed.day - now.day
                 ELSE now.day - parsed.day
        IN  /\ parsed # NullDate
            /\ k \in 1..7
            /\ getDay(parsed) = expr.a
            /\ k = 7 <=> getDay(now) = expr.a

\* "last Friday" said on a Friday
C19_Witness ==
    /\ pc = "done"
    /\ expr = Expr("last", 5, 0)
    /\ getDay(now) = 5
    /\ parsed.day = now.day - 7

\* C20: an ordinal day-of-month N in 1..31 resolves to a date whose day of
\* the month is N, in the current month when N is today's day number or
\* later, and in the next month otherwise; short months and N = today's day
\* number included.
C20_OrdinalDayOfMonth ==
    (pc = "done" /\ expr.kind = "ordinal" /\ expr.a \in 1..31) =>
        /\ parsed # NullDate
        /\ getDate(parsed) = expr.a
        /\ IF expr.a >= getDate(now)
           THEN /\ getMonth(parsed) = getMonth(now)
                /\ getFullYear(parsed) = getFullYear(now)
           ELSE 12 * getFullYear(parsed) + getMonth(parsed)
                    = 12 * getFullYear(now) + getMonth(now) + 1

\* the 0-based month a year-less month-day or MM/DD expression names
WrittenMonth(e) == IF e.kind = "monthday" THEN e.a ELSE e.a - 1

YearlessMonthDay ==
    /\ pc = "done"
    /\ expr.kind \in {"monthday", "slash"}
    /\ WrittenMonth(expr) \in 0..11
    /\ expr.b \in 1..31

\* C21: a year-less "<Month> <day>" or MM/DD expression with month 1..12 and
\* day 1..31 resolves to a date with that month and day number, in the
\* current year when that calendar date is today's or later and in the next
\* year otherwise; the result is never a calendar day before today.
C21_MonthDayThisYearOrNext ==
    YearlessMonthDay =>
        LET thisYear == NewDate(getFullYear(now), WrittenMonth(expr), expr.b)
        IN  /\ parsed # NullDate
            /\ getMonth(parsed) = WrittenMonth(expr)
            /\ getDate(parsed) = expr.b
            /\ getFullYear(parsed) =
                  IF thisYear.day >= now.day THEN getFullYear(now)
                  ELSE getFullYear(now) + 1
            /\ parsed.day >= now.day

\* C22: "end of (the) week" resolves to the first Friday strictly after
\* today, 7 days later when today is a Friday; "beginning of (next) week" to
\* the first Monday strictly after today; "end of (the) month" to the last
\* calendar day of the current month; "beginning of (next) month" to the
\* first day of the next month, January of the next year in December.
C22_NamedPhrases ==
    pc = "done" =>
        /\ expr.kind = "endOfWeek" =>
              /\ getDay(parsed) = 5
              /\ parsed.day - now.day \in 1..7
              /\ (parsed.day - now.day = 7) <=> (getDay(now) = 5)
        /\ expr.kind = "beginningOfWeek" =>
              /\ getDay(parsed) = 1
              /\ parsed.day - now.day \in 1..7
        /\ expr.kind = "endOfMonth" =>
              /\ getFullYear(parsed) = getFullYear(now)
              /\ getMonth(parsed) = getMonth(now)
              /\ getDate(parsed) = DaysInMonth(getFullYear(now), getMonth(now) + 1)
              /\ getDate(addDays(parsed, 1)) = 1
        /\ expr.kind = "beginningOfMonth" =>
              /\ getDate(parsed) = 1
              /\ parsed.day > now.day
              /\ parsed.day - now.day <= 31
              /\ getMonth(parsed) = (getMonth(now) + 1) % 12
              /\ getFullYear(parsed) =
                    IF getMonth(now) = 11 THEN getFullYear(now) + 1
                    ELSE getFullYear(now)

\* "beginning of next month" said on December 31
C22_Witness ==
    /\ pc = "done"
    /\ expr.kind = "beginningOfMonth"
    /\ getMonth(now) = 11 /\ getDate(now) = 31
    /\ getMonth(parsed) = 0 /\ getDate(parsed) = 1
    /\ getFullYear(parsed) = getFullYear(now) + 1

\* the call of mergeSimilarThreads seen as a step: threads is the list it
\* was given, threads' the same list after the call, merged' what it returned
IsMergeStep == pc = "detected" /\ pc' = "merged"

\* the input threads whose messages are in the k-th returned thread, and the
\* first of them, its target
MembersOf(k) ==
    {i \in 1..Len(threads) : MessageIds(threads[i]) \subseteq MessageIds(merged'[k])}
TargetOf(k) == Least(MembersOf(k))

\* the target t after mergeThreads took in the threads ts[i], i in S, in
\* list order
RECURSIVE Enlarged(_, _, _)
Enlarged(t, ts, S) ==
    IF S = {} THEN t
    ELSE Enlarged(mergeThreads(t, ts[Least(S)]), ts, S \ {Least(S)})

\* C23 as claimed: a thread is absorbed into a target only if it satisfies a
\* merge criterion against the target as it was given in the input list.
C23_NoChaining ==
    [][IsMergeStep =>
        \A k \in 1..Len(merged') :
            \A i \in MembersOf(k) \ {TargetOf(k)} :
                shouldMergeThreads(threads[TargetOf(k)], threads[i])]_vars

\* C23 amended: a thread that no earlier target absorbed is absorbed into a
\* target exactly when it satisfies a merge criterion against the target as
\* enlarged by the threads absorbed before it in the same pass (the target's
\* subject, the union of the participants, the earliest start date); it need
\* not satisfy any criterion against the target as given.  An absorbed thread
\* is not compared again.
C23_ChainsThroughEnlargedTarget ==
    [][IsMergeStep =>
        \A k \in 1..Len(merged') :
            LET a == TargetOf(k)
                taken == UNION {MembersOf(h) : h \in 1..(k - 1)}
            IN  \A i \in (a + 1)..Len(threads) :
                    i \notin taken =>
                        (i \in MembersOf(k) <=>
                            shouldMergeThreads(
                                Enlarged(threads[a], threads,
                                         {j \in MembersOf(k) : a < j /\ j < i}),
                                threads[i]))]_vars

\* three single-message threads became one although the third satisfies no
\* criterion against the first as it was given
C23_Witness ==
    /\ pc = "merged" /\ Len(threads) = 3 /\ Len(merged) = 1
    /\ Len(merged[1].messages) = 3
    /\ ~shouldMergeThreads(createNewThread(SortedEmails(emails)[1], 1), threads[3])

MessageSet(t) == {t.messages[n] : n \in 1..Len(t.messages)}

\* C24: every input thread is in exactly one returned thread, as its target
\* or absorbed into it, and an absorbed thread is not returned as a target;
\* a returned thread's messages are those of its target and the threads it
\* absorbed, each once, ascending by date; its participants are their union,
\* its startDate and endDate their earliest and latest, its isActive the OR
\* of theirs.
C24_MergeConserves ==
    [][IsMergeStep =>
        /\ \A i \in 1..Len(threads) :
              Cardinality({k \in 1..Len(merged') : i \in MembersOf(k)}) = 1
        /\ \A k \in 1..Len(merged') :
              LET ms == MembersOf(k)
                  out == merged'[k]
              IN  /\ out.id = threads[TargetOf(k)].id
                  /\ \A i \in ms \ {TargetOf(k)} :
                        \A h \in 1..Len(merged') : merged'[h].id # threads[i].id
                  /\ MessageSet(out) = UNION {MessageSet(threads[i]) : i \in ms}
                  /\ Len(out.messages) = Cardinality(MessageSet(out))
                  /\ \A n \in 1..(Len(out.messages) - 1) :
                        out.messages[n].date <= out.messages[n + 1].date
                  /\ out.participants = UNION {threads[i].participants : i \in ms}
                  /\ \A i \in ms : out.startDate <= threads[i].startDate
                  /\ \E i \in ms : out.startDate = threads[i].startDate
                  /\ \A i \in ms : out.endDate >= threads[i].endDate
                  /\ \E i \in ms : out.endDate = threads[i].endDate
                  /\ out.isActive <=> \E i \in ms : threads[i].isActive]_vars

\* a two-message target took in an earlier-dated thread; a third thread
\* stayed on its own
C24_Witness ==
    /\ pc = "merged" /\ Len(merged) < Len(threads)
    /\ \E k \in 1..Len(merged) :
          /\ Len(merged[k].messages) = 3
          /\ merged[k].messages[1].id # merged[k].id
          /\ merged[k].startDate < merged[k].endDate
          /\ merged[k].isActive

\* C25: a message joins a thread only if its normalized subject equals the
\* thread's subject or one contains the other: participants, references and
\* timing contribute at most 0.6 and the score without a subject signal is
\* not above 0.7; a message with the thread's subject and participants, no
\* reference link, sent 7 or more days after the thread's last message
\* scores exactly 0.7 and does not join.
C25_SubjectNeededToJoin ==
    [][IsLoopStep =>
        \A i \in 1..Len(threads) :
            LET e == StepEmail
                t == threads[i]
                subj == normalizeSubject(e.subject)
            IN  /\ 10 * (ParticipantsTerm(e, t) + ReferencesTerm(e, t) + TimingTerm(e, t))
                      <= 6 * ScoreScale
                /\ SubjectTerm(e, t) = 0 => ~Greater(StepScore(i), Threshold)
                /\ Joined(i) =>
                      (subj = t.subject \/ includes(t.subject, subj)
                                        \/ includes(subj, t.subject))
                /\ ( /\ subj = t.subject
                     /\ EmailParticipants(e) = t.participants
                     /\ ReferencesTerm(e, t) = 0
                     /\ e.date - t.messages[Len(t.messages)].date >= 7 * HoursPerDay )
                   => (StepScore(i) = Threshold /\ ~Joined(i))]_vars

\* the second message, with the first one's subject and participants and no
\* reference, came 7 days later and started its own thread
C25_Witness ==
    /\ pc = "detect" /\ handled = 2 /\ Len(threads) = 2
    /\ threads[1].subject = threads[2].subject
    /\ threads[1].participants = threads[2].participants
    /\ threads[2].startDate - threads[1].endDate = 7 * HoursPerDay
    /\ threads[2].messages[1].inReplyTo = NoId
    /\ calculateThreadMatchScore(threads[2].messages[1], threads[1]) = Threshold

\* C26: after the call every thread of the input list has the messages,
\* participants, startDate, endDate and isActive it had before the call.
C26_InputUnchanged ==
    [][IsMergeStep =>
        \A i \in 1..Len(threads) :
            /\ threads'[i].messages = threads[i].messages
            /\ threads'[i].participants = threads[i].participants
            /\ threads'[i].startDate = threads[i].startDate
            /\ threads'[i].endDate = threads[i].endDate
            /\ threads'[i].isActive = threads[i].isActive]_vars

\* C27: with hasLastDate = true every record consolidate returns has type
\* email, exchanges >= 1 and a combinedContext of that length; a pending
\* record is in the output exactly when hasLastDate is false.
C27_PendingOnlyWithoutOverride ==
    pc = "done" =>
        /\ hasLastDate =>
              \A i \in 1..Len(pocs) :
                  /\ pocs[i].type = "email"
                  /\ pocs[i].exchanges >= 1
                  /\ Len(pocs[i].combinedContext) = pocs[i].exchanges
        /\ (\E i \in 1..Len(pocs) : pocs[i].type = "pending") <=> ~hasLastDate

\* three dates of one day, the override among them and not the first, made
\* one record
C27_Witness ==
    /\ pc = "done" /\ hasLastDate
    /\ Len(dates) = 3 /\ ~dates[1].isLastDate /\ dates[3].isLastDate
    /\ Len(pocs) = 1
    /\ pocs[1].exchanges = 3 /\ pocs[1].type = "email"

\* C28: the generated output holds no note headed by the placeholder
\* dateStr of the pending record, whatever was analysed before.
C28_NoNoteForPendingRecord ==
    pc = "store" =>
        \A i \in 1..Len(generatedOutput) :
            ~(generatedOutput[i].kind = "note"
              /\ generatedOutput[i].dateStr = PendingDateStr)

WorkedCount == Cardinality({i \in 1..Len(workDays) : workDays[i].worked})

\* C29: for 1 <= totalDaysWorked <= the number of business days and every
\* style but 'randomized', the selected indices are totalDaysWorked distinct
\* values in 0..T-1 and the work log counts totalDaysWorked worked days.
C29_ExactlyTotalDaysWorked ==
    (pc = "done" /\ config.balanceStyle # "randomized" /\ config.totalDaysWorked >= 1) =>
        /\ \A selected \in selectWorkDayIndices(Len(businessDays), config.totalDaysWorked,
                                                config.balanceStyle) :
              /\ Len(selected) = config.totalDaysWorked
              /\ \A m, n \in 1..Len(selected) :
                    /\ selected[m] \in 0..(Len(businessDays) - 1)
                    /\ selected[m] = selected[n] => m = n
        /\ WorkedCount = config.totalDaysWorked

\* the actions whose message the workflow carries
WrittenByAnalyzeOrGenerate ==
    workflow.message \notin {<<"Draft saved successfully">>, <<"Ready">>}

\* C30: when analyzeContent or generateOutput wrote the workflow after
\* saveAsDraft and before its timer fires, the workflow state after the timer
\* fires is the one that action set.
C30_TimerKeepsLaterState ==
    [][(timers' = timers - 1 /\ WrittenByAnalyzeOrGenerate)
          => workflow'.state = workflow.state]_vars

====
